---- MODULE Spec2Model ----
(***************************************************************************)
(* Model of the Age of Mythology Retold TMA (animation) and TMM (mesh)     *)
(* codecs: TMAReader / TMAWriter (tma_manager.py), TMMReader / TMMWriter   *)
(* (tmm_manager.py) and the standalone mesh exporter (export_tmm_file.py). *)
(*                                                                         *)
(* Files are sequences of bytes (0..255).  struct.pack / struct.unpack,    *)
(* f.read, f.seek and str.encode / bytes.decode are modelled on bytes.     *)
(* Floating point values are modelled as follows:                          *)
(*   - an opaque f32 field (matrix entries, positions, radii, ...) is a    *)
(*     small natural number standing for an f32-representable value; it is *)
(*     packed into 4 bytes like an integer;                                *)
(*   - a quaternion component is an integer in units of 1/QUnit (fixed     *)
(*     point); sqrt(2) and the 19-bit magnitude scale are applied in       *)
(*     integer arithmetic that stays inside 32 bits.                       *)
(* A 64-bit packed quaternion is the tuple of its bit fields               *)
(* <<bits 0..19, bits 20..39, bits 40..59, bits 60..63>>.                  *)
(***************************************************************************)
EXTENDS Integers, Sequences, FiniteSets, TLC

VARIABLES
    phase,          \* position of the session: which operation ran last
    quat,           \* quaternion handed to TMAWriter._compress_quaternion
    compressed,     \* the packed 64-bit word (tuple of bit fields)
    decompressed,   \* result of TMAReader._decompress_quaternion
    tma_data,       \* TMAFile handed to TMAWriter.write
    tmm_data,       \* TMMFile handed to TMMWriter.write
    mesh,           \* scene handed to the standalone exporter
    file,           \* bytes of the primary file on disk
    data_file,      \* bytes of the secondary .tmm.data file on disk
    writer,         \* the encoder that ran ("none" before)
    written,        \* outcome of the encoder run: "ok" or the exception
    reader,         \* the decoder that ran ("none" before)
    result          \* outcome of the decoder run: [err, pos, val]

vars == <<phase, quat, compressed, decompressed, tma_data, tmm_data, mesh,
          file, data_file, writer, written, reader, result>>

(***************************************************************************)
(* Small helpers                                                           *)
(***************************************************************************)
Abs(n) == IF n < 0 THEN -n ELSE n

Min(a, b) == IF a <= b THEN a ELSE b

RECURSIVE Concat(_)
Concat(ss) == IF ss = <<>> THEN <<>> ELSE Head(ss) \o Concat(Tail(ss))

RECURSIVE SumSeq(_)
SumSeq(ns) == IF ns = <<>> THEN 0 ELSE Head(ns) + SumSeq(Tail(ns))

\* floor(sqrt(n)) for 0 <= n < 2^22
ISqrt(n) == CHOOSE r \in 0..2048 : r * r <= n /\ (r + 1) * (r + 1) > n

(***************************************************************************)
(* Program constants                                                       *)
(***************************************************************************)
TMA_MAGIC == 1095586882

TMM_MAGIC == 1296913474

TMA_VERSION == 12

TMM_VERSION == 35

DP == 20548

\* (1 << 19) - 1, the largest 19-bit magnitude
MagMax == 524287

\* fixed-point unit of a quaternion component: the value 1.0
QUnit == 1000

(***************************************************************************)
(* Quaternion compression (TMAWriter._compress_quaternion)                 *)
(***************************************************************************)
\* abs_components.index(max(abs_components)): first index (0-based) of the
\* largest magnitude
MaxIndex(components) ==
    CHOOSE i \in 0..3 :
        /\ \A j \in 0..3 : Abs(components[j + 1]) <= Abs(components[i + 1])
        /\ \A j \in 0..3 : j < i => Abs(components[j + 1]) < Abs(components[i + 1])

\* [components[i] for i in range(4) if i != max_index]
Remaining(components, max_index) ==
    [k \in 1..3 |-> components[IF k - 1 < max_index THEN k ELSE k + 1]]

\* int(min(abs(c) * sqrt(2), 1.0) * ((1 << 19) - 1)) for abs(c) = n / QUnit.
\* sqrt(2) * MagMax = 741453.7860 is applied as 741453 + 7860/10000.
Magnitude(n) ==
    IF 2 * n * n >= QUnit * QUnit
    THEN MagMax
    ELSE (n * 741453 + (n * 7860) \div 10000) \div QUnit

\* the 20-bit chunk of one retained component: 19 magnitude bits, then the
\* sign bit (1 when the corrected component is not negative)
SignCorrected(c, i, max_index) == IF i = 0 \/ max_index = 3 THEN c ELSE -c

EncodeChunk(c, i, max_index) ==
    LET cc == SignCorrected(c, i, max_index)
        sign_bit == IF cc < 0 THEN 0 ELSE 1
        magnitude == Magnitude(Abs(cc))
    IN  (magnitude % 524288) + sign_bit * 524288

TMAWriter_compress_quaternion(q) ==
    LET components0 == q               \* [w, x, y, z]
        max_index == MaxIndex(components0)
        max_component == components0[max_index + 1]
        components == IF max_component < 0
                      THEN [k \in 1..4 |-> -components0[k]]
                      ELSE components0
        remaining == Remaining(components, max_index)
    IN  << EncodeChunk(remaining[1], 0, max_index),
           EncodeChunk(remaining[2], 1, max_index),
           EncodeChunk(remaining[3], 2, max_index),
           (3 - max_index) % 4 >>

(***************************************************************************)
(* Quaternion decompression (TMAReader._decompress_quaternion)             *)
(***************************************************************************)
\* (chunk & 0x7FFFF) / ((1 << 19) - 1) / sqrt(2), negated when bit 19 is set;
\* the result is rounded to the nearest 1/QUnit
DecodeChunk(chunk) ==
    LET mag == chunk % 524288
        v == (mag * QUnit + 370727) \div 741454
    IN  IF (chunk \div 524288) % 2 = 1 THEN -v ELSE v

TMAReader_decompress_quaternion(word) ==
    LET a == DecodeChunk(word[1])
        b == DecodeChunk(word[2])
        c == DecodeChunk(word[3])
        max_index == word[4] % 4
        \* remaining_indices = [i for i in range(4) if i != max_index]
        slot(i) == IF i < max_index THEN i + 1 ELSE i
        placed == [i \in 0..3 |->
                     IF i = max_index THEN 0
                     ELSE IF slot(i) = 1 THEN a
                     ELSE IF slot(i) = 2 THEN b ELSE c]
        sum_sq == a * a + b * b + c * c
        norm == ISqrt(sum_sq)
    IN  IF sum_sq <= QUnit * QUnit
        THEN [k \in 1..4 |->
                IF k - 1 = max_index
                THEN ISqrt(QUnit * QUnit - sum_sq)
                ELSE placed[k - 1]]
        ELSE [k \in 1..4 |->
                IF k - 1 = max_index THEN 0
                ELSE (placed[k - 1] * QUnit) \div norm]

(***************************************************************************)
(* struct.pack / struct.unpack, str.encode / bytes.decode, f.read          *)
(***************************************************************************)
\* struct.pack("<L", v), 0 <= v < 2^31
PackL(v) ==
    << v % 256, (v \div 256) % 256, (v \div 65536) % 256, (v \div 16777216) % 256 >>

\* struct.pack("<l", v), -2^31 <= v < 2^31 (two's complement)
PackSL(v) ==
    IF v >= 0 THEN PackL(v)
    ELSE LET low == v % 16777216              \* v mod 2^24, never negative
             high == (v - low) \div 16777216  \* -128 .. -1
         IN  << low % 256, (low \div 256) % 256, (low \div 65536) % 256, high + 256 >>

\* struct.pack("<H", v)
PackH(v) == << v % 256, (v \div 256) % 256 >>

\* struct.pack("<B", v)
PackB(v) == << v >>

\* struct.pack("<f", v): v stands for an f32-representable value
PackF(v) == PackL(v)

\* struct.pack("<f", 1.0)
F32_ONE == << 0, 0, 128, 63 >>

\* struct.pack("<Q", word) of the bit fields <<0..19, 20..39, 40..59, 60..63>>
PackQ(word) ==
    << word[1] % 256, (word[1] \div 256) % 256,
       (word[1] \div 65536) + (word[2] % 16) * 16,
       (word[2] \div 16) % 256, word[2] \div 4096,
       word[3] % 256, (word[3] \div 256) % 256,
       (word[3] \div 65536) + word[4] * 16 >>

\* struct.unpack("<L", b)[0]; a value of 2^31 or more is represented by
\* 2^31 - 1 (such values only arise as counts and lengths far beyond the end
\* of any file of the model)
UnpackL(b) ==
    IF b[4] >= 128 THEN 2147483647
    ELSE b[1] + 256 * b[2] + 65536 * b[3] + 16777216 * b[4]

UnpackSL(b) ==
    b[1] + 256 * b[2] + 65536 * b[3]
         + 16777216 * (IF b[4] >= 128 THEN b[4] - 256 ELSE b[4])

UnpackH(b) == b[1] + 256 * b[2]

UnpackF(b) == UnpackL(b)

UnpackQ(b) ==
    << b[1] + 256 * b[2] + 65536 * (b[3] % 16),
       (b[3] \div 16) + 16 * b[4] + 4096 * b[5],
       b[6] + 256 * b[7] + 65536 * (b[8] % 16),
       b[8] \div 16 >>

\* one code point as UTF-16LE bytes (a surrogate pair above the BMP)
EncodeCodePoint(cp) ==
    IF cp < 65536 THEN PackH(cp)
    ELSE PackH(55296 + ((cp - 65536) \div 1024)) \o PackH(56320 + ((cp - 65536) % 1024))

\* s.encode("UTF-16-LE"); a string is its sequence of code points, so
\* len(s) is Len(s)
RECURSIVE EncodeUTF16LE(_)
EncodeUTF16LE(s) ==
    IF s = <<>> THEN <<>> ELSE EncodeCodePoint(Head(s)) \o EncodeUTF16LE(Tail(s))

\* the i-th 16-bit unit of b
Unit(b, i) == b[2 * i - 1] + 256 * b[2 * i]

IsHigh(u) == u >= 55296 /\ u < 56320

IsLow(u) == u >= 56320 /\ u < 57344

\* the code points of well-formed units: a surrogate pair becomes one
RECURSIVE JoinPairs(_)
JoinPairs(us) ==
    IF us = <<>> THEN <<>>
    ELSE IF IsHigh(us[1])
    THEN << 65536 + ((us[1] - 55296) * 1024) + (us[2] - 56320) >>
         \o JoinPairs(SubSeq(us, 3, Len(us)))
    ELSE << us[1] >> \o JoinPairs(Tail(us))

\* bytes.decode("UTF-16-LE"): [ok, val]; an odd length or an unpaired
\* surrogate raises UnicodeDecodeError
DecodeUTF16LE(b) ==
    LET n == Len(b) \div 2
        us == [i \in 1..n |-> Unit(b, i)]
        paired == \A i \in 1..n :
                     /\ IsHigh(us[i]) => (i < n /\ IsLow(us[i + 1]))
                     /\ IsLow(us[i]) => (i > 1 /\ IsHigh(us[i - 1]))
    IN  IF Len(b) % 2 = 1 \/ ~paired THEN [ok |-> FALSE, val |-> <<>>]
        ELSE IF \A i \in 1..n : ~IsHigh(us[i]) THEN [ok |-> TRUE, val |-> us]
        ELSE [ok |-> TRUE, val |-> JoinPairs(us)]

\* file positions and byte counts saturate here, far beyond any file
PosMax == 1073741823

\* v * k and pos + n, saturating at PosMax
Times(v, k) == IF v > PosMax \div k THEN PosMax ELSE v * k

SeekBy(pos, n) == IF n >= PosMax - pos THEN PosMax ELSE pos + n

\* f.read(n) with the file position at pos: the bytes that are there
Take(f, pos, n) ==
    IF pos >= Len(f) THEN << >>
    ELSE SubSeq(f, pos + 1, IF n >= Len(f) - pos THEN Len(f) ELSE pos + n)

\* outcome of a reading step: err = "" when it succeeded; a step that
\* follows a step that raised does nothing and hands the exception on
Ok(pos, val) == [err |-> "", pos |-> pos, val |-> val]

Raise(err, pos) == [err |-> err, pos |-> pos, val |-> <<>>]

\* the file has just been opened
Opened == Ok(0, <<>>)

\* the value a function returns after the step s, unless s raised
Return(s, val) == IF s.err # "" THEN s ELSE Ok(s.pos, val)

\* assert cond after the step s
Check(s, cond) ==
    IF s.err # "" THEN s
    ELSE IF cond THEN s ELSE Raise("AssertionError", s.pos)

\* struct.unpack(fmt, f.read(n)): struct.error unless n bytes were there
ReadStruct(f, s, n) ==
    IF s.err # "" THEN s
    ELSE IF Len(Take(f, s.pos, n)) = n THEN Ok(s.pos + n, Take(f, s.pos, n))
    ELSE Raise("struct.error", s.pos + Len(Take(f, s.pos, n)))

\* f.read(n) whose result is dropped: no exception at the end of the file
SkipRead(f, s, n) ==
    IF s.err # "" THEN s ELSE Ok(s.pos + Len(Take(f, s.pos, n)), <<>>)

\* f.seek(n, 1): no exception beyond the end of the file
Seek(s, n) == IF s.err # "" THEN s ELSE Ok(SeekBy(s.pos, n), <<>>)

\* f.read(name_length).decode("UTF-16-LE") after the length field n
ReadBody(f, n) ==
    IF n.err # "" THEN n
    ELSE IF DecodeUTF16LE(Take(f, n.pos, Times(UnpackL(n.val), 2))).ok
    THEN Ok(n.pos + Len(Take(f, n.pos, Times(UnpackL(n.val), 2))),
            DecodeUTF16LE(Take(f, n.pos, Times(UnpackL(n.val), 2))).val)
    ELSE Raise("UnicodeDecodeError",
               n.pos + Len(Take(f, n.pos, Times(UnpackL(n.val), 2))))

\* name_length = unpack("<L", f.read(4))[0] * 2; f.read(name_length).decode(...)
ReadString(f, s) == ReadBody(f, ReadStruct(f, s, 4))

(***************************************************************************)
(* 4x4 matrices: a matrix is its 4 rows                                    *)
(***************************************************************************)
Transposed(m) == [r \in 1..4 |-> [c \in 1..4 |-> m[c][r]]]

\* [f for row in matrix for f in row] packed as 16 floats
PackRows(m) ==
    Concat([k \in 1..16 |-> PackF(m[((k - 1) \div 4) + 1][((k - 1) % 4) + 1])])

\* Matrix(np.array(matrix_data).reshape(4, 4)) of 64 bytes
Reshape44(b) ==
    [r \in 1..4 |-> [c \in 1..4 |->
        UnpackF(SubSeq(b, 16 * (r - 1) + 4 * (c - 1) + 1, 16 * (r - 1) + 4 * c))]]

(***************************************************************************)
(* TMAWriter                                                               *)
(* An encoder step yields [out, err]: the bytes it wrote and the exception *)
(* it raised ("" when none); bytes written before the exception stay.      *)
(***************************************************************************)
Wrote(out) == [out |-> out, err |-> ""]

Failed(out, err) == [out |-> out, err |-> err]

\* run step b after step a unless a raised
Then(a, b) == IF a.err # "" THEN a ELSE [out |-> a.out \o b.out, err |-> b.err]

TMAWriter_write_header(header) ==
    PackL(header.magic) \o PackL(header.version) \o PackH(header.dp)

TMAWriter_write_import_block == PackL(4) \o PackL(0)

\* matrix.transpose(); write rows; matrix.transpose()
TMAWriter_write_matrix(matrix) == PackRows(Transposed(matrix))

RECURSIVE TMAWriter_write_bones(_)
TMAWriter_write_bones(bones) ==
    IF bones = <<>> THEN <<>>
    ELSE LET bone == Head(bones)
         IN  PackL(Len(bone.name)) \o EncodeUTF16LE(bone.name)
             \o PackSL(bone.parent_index)
             \o TMAWriter_write_matrix(bone.parent_space_matrix)
             \o TMAWriter_write_matrix(bone.world_space_matrix)
             \o TMAWriter_write_matrix(bone.inverse_bind_matrix)
             \o TMAWriter_write_bones(Tail(bones))

PackVec3(v) == PackF(v[1]) \o PackF(v[2]) \o PackF(v[3])

RECURSIVE PackVec3s(_)
PackVec3s(vs) == IF vs = <<>> THEN <<>> ELSE PackVec3(Head(vs)) \o PackVec3s(Tail(vs))

TMAWriter_write_translations(translations, position_mode) ==
    IF position_mode = 0
    THEN IF translations = <<>>
         THEN Failed(<<>>, "IndexError")           \* translations[0]
         ELSE Wrote(PackVec3(translations[1]) \o PackL(1))
    ELSE IF position_mode = 1
    THEN Wrote(PackL(Len(translations) * 12) \o PackVec3s(translations))
    ELSE Wrote(<<>>)

RECURSIVE PackQuats(_)
PackQuats(rotations) ==
    IF rotations = <<>> THEN <<>>
    ELSE PackQ(TMAWriter_compress_quaternion(Head(rotations)))
         \o PackQuats(Tail(rotations))

TMAWriter_write_rotations(rotations, rotation_mode) ==
    IF rotation_mode = 0
    THEN Failed(<<>>, "NotImplementedError")
    ELSE IF rotation_mode = 3
    THEN Wrote(PackL(Len(rotations) * 8) \o PackQuats(rotations))
    ELSE Wrote(<<>>)

RECURSIVE TMAWriter_write_animations(_)
TMAWriter_write_animations(animations) ==
    IF animations = <<>> THEN Wrote(<<>>)
    ELSE LET anim == Head(animations)
             head == PackL(Len(anim.bone_name)) \o EncodeUTF16LE(anim.bone_name)
                     \o PackB(1) \o PackB(anim.position_mode)
                     \o PackB(anim.rotation_mode) \o PackB(0)
                     \o PackL(Len(anim.translations))
         IN  Then(Then(Then(Then(Wrote(head),
                 TMAWriter_write_translations(anim.translations, anim.position_mode)),
                 TMAWriter_write_rotations(anim.rotations, anim.rotation_mode)),
                 Wrote(F32_ONE \o F32_ONE \o F32_ONE \o F32_ONE)),
                 TMAWriter_write_animations(Tail(animations)))

\* placeholder in the source: writes nothing
TMAWriter_write_attachments(attachments) == <<>>

TMAWriter_write_file(d) ==
    Then(Then(Wrote(TMAWriter_write_header(d.header)
                    \o TMAWriter_write_import_block
                    \o PackL(d.active_bone_count)
                    \o PackL(d.frame_count)
                    \o PackF(d.animation_duration)
                    \o PackVec3(d.root_position)
                    \o PackVec3(d.root_position)
                    \o PackL(Len(d.bones))
                    \o PackL(Len(d.attachments))
                    \o TMAWriter_write_bones(d.bones)),
              TMAWriter_write_animations(d.animations)),
         Wrote(TMAWriter_write_attachments(d.attachments)))

(***************************************************************************)
(* TMAReader                                                               *)
(* A decoder step yields [err, pos, val]: the exception raised ("" when    *)
(* none), the file position afterwards and the value read.                 *)
(***************************************************************************)
\* a header check that accepts every magic
AnyMagic(magic) == TRUE

\* assert magic == 1095586882
TMAMagicOK(magic) == magic = TMA_MAGIC

TMAReader_read_header(f, s) ==
    LET magic == ReadStruct(f, s, 4)
        version == ReadStruct(f, Check(magic, TMAMagicOK(UnpackL(magic.val))), 4)
        dp == ReadStruct(f, version, 2)
    IN  Return(dp, [magic |-> UnpackL(magic.val),
                    version |-> UnpackL(version.val),
                    dp |-> UnpackH(dp.val)])

\* import_length = unpack(...); f.seek(import_length, 1)
SeekOver(n) == Seek(n, UnpackL(n.val))

TMAReader_skip_import_block(f, s) == SeekOver(ReadStruct(f, s, 4))

\* reshape(4, 4), then matrix.transpose()
TransposedMatrix(b) == Return(b, Transposed(Reshape44(b.val)))

TMAReader_read_matrix(f, s) == TransposedMatrix(ReadStruct(f, s, 64))

\* one pass of the loop of _read_bones
TMAReader_read_bone(f, s) ==
    LET name == ReadString(f, s)
        parent_index == ReadStruct(f, name, 4)
        parent_space_matrix == TMAReader_read_matrix(f, parent_index)
        world_space_matrix == TMAReader_read_matrix(f, parent_space_matrix)
        inverse_bind_matrix == TMAReader_read_matrix(f, world_space_matrix)
    IN  Return(inverse_bind_matrix,
               [name |-> name.val,
                parent_index |-> UnpackSL(parent_index.val),
                parent_space_matrix |-> parent_space_matrix.val,
                world_space_matrix |-> world_space_matrix.val,
                inverse_bind_matrix |-> inverse_bind_matrix.val])

\* list.append(x) after the step that read x: the list grows unless it raised
Appended(list, x) ==
    IF x.err # "" THEN x ELSE Ok(x.pos, Append(list, x.val))

\* s.val is the list of the bones read so far
RECURSIVE TMAReader_read_bones(_, _, _)
TMAReader_read_bones(f, s, bone_count) ==
    IF s.err # "" \/ bone_count = 0 THEN s
    ELSE TMAReader_read_bones(f, Appended(s.val, TMAReader_read_bone(f, s)),
                              bone_count - 1)

UnpackVec3(b) ==
    << UnpackF(SubSeq(b, 1, 4)), UnpackF(SubSeq(b, 5, 8)), UnpackF(SubSeq(b, 9, 12)) >>

Vec3(b) == Return(b, UnpackVec3(b.val))

\* for _ in range(n): translations.append(struct.unpack("<fff", f.read(12)))
RECURSIVE ReadVec3s(_, _, _)
ReadVec3s(f, s, n) ==
    IF s.err # "" \/ n = 0 THEN s
    ELSE ReadVec3s(f, Appended(s.val, Vec3(ReadStruct(f, s, 12))), n - 1)

\* the stored value once
OneKey(f, v, frame_count) ==
    Return(SkipRead(f, v, 4), << UnpackVec3(v.val) >>)

\* static_pos read once and repeated frame_count times, then f.read(4)
Repeated(f, v, frame_count) ==
    Return(SkipRead(f, v, 4), [k \in 1..frame_count |-> UnpackVec3(v.val)])

TMAReader_read_translations(f, s, position_mode, frame_count) ==
    IF s.err # "" THEN s
    ELSE IF position_mode = 0 THEN Repeated(f, ReadStruct(f, s, 12), frame_count)
    ELSE IF position_mode = 1 THEN ReadVec3s(f, SkipRead(f, s, 4), frame_count)
    ELSE Raise("ValueError", s.pos)

Quat(b) == Return(b, TMAReader_decompress_quaternion(UnpackQ(b.val)))

\* for _ in range(n): _decompress_quaternion(struct.unpack("<Q", f.read(8))[0])
RECURSIVE ReadQuats(_, _, _)
ReadQuats(f, s, n) ==
    IF s.err # "" \/ n = 0 THEN s
    ELSE ReadQuats(f, Appended(s.val, Quat(ReadStruct(f, s, 8))), n - 1)

TMAReader_read_rotations(f, s, rotation_mode, frame_count) ==
    IF s.err # "" THEN s
    ELSE IF rotation_mode = 0 THEN Raise("NotImplementedError", s.pos)
    ELSE IF rotation_mode = 3 THEN ReadQuats(f, SkipRead(f, s, 4), frame_count)
    ELSE Raise("ValueError", s.pos)

\* a track check that accepts every embedded frame count
AnyFrameCount(anim_frame_count, frame_count) == TRUE

\* assert anim_frame_count == frame_count
FrameCountOK(anim_frame_count, frame_count) == anim_frame_count = frame_count

\* one pass of the loop of _read_animations
TMAReader_read_animation(f, s, frame_count) ==
    LET bone_name == ReadString(f, s)
        unknown1 == ReadStruct(f, bone_name, 1)
        position_mode == ReadStruct(f, unknown1, 1)
        rotation_mode == ReadStruct(f, position_mode, 1)
        unknown2 == ReadStruct(f, rotation_mode, 1)
        anim_frame_count == ReadStruct(f, unknown2, 4)
        translations ==
            TMAReader_read_translations(f,
                Check(anim_frame_count,
                      FrameCountOK(UnpackL(anim_frame_count.val), frame_count)),
                position_mode.val[1], frame_count)
        rotations ==
            TMAReader_read_rotations(f, translations, rotation_mode.val[1], frame_count)
    IN  Return(SkipRead(f, rotations, 16),
               [bone_name |-> bone_name.val,
                position_mode |-> position_mode.val[1],
                rotation_mode |-> rotation_mode.val[1],
                translations |-> translations.val,
                rotations |-> rotations.val])

\* s.val is the list of the tracks read so far
RECURSIVE TMAReader_read_animations(_, _, _, _)
TMAReader_read_animations(f, s, active_bone_count, frame_count) ==
    IF s.err # "" \/ active_bone_count = 0 THEN s
    ELSE TMAReader_read_animations(f,
             Appended(s.val, TMAReader_read_animation(f, s, frame_count)),
             active_bone_count - 1, frame_count)

\* f.seek(attachment_count * 8, 1); return []
TMAReader_read_attachments(f, s, attachment_count) ==
    Seek(s, Times(attachment_count, 8))

TMAReader_parse_file(f) ==
    LET header == TMAReader_read_header(f, Opened)
        active_bone_count == ReadStruct(f, TMAReader_skip_import_block(f, header), 4)
        frame_count == ReadStruct(f, active_bone_count, 4)
        animation_duration == ReadStruct(f, frame_count, 4)
        root_pos1 == ReadStruct(f, animation_duration, 12)
        root_pos2 == ReadStruct(f, root_pos1, 12)
        bone_count == ReadStruct(f, root_pos2, 4)
        attachment_count == ReadStruct(f, bone_count, 4)
        bones == TMAReader_read_bones(f, Return(attachment_count, <<>>),
                                      UnpackL(bone_count.val))
        animations == TMAReader_read_animations(f, Return(bones, <<>>),
                          UnpackL(active_bone_count.val), UnpackL(frame_count.val))
        attachments == TMAReader_read_attachments(f, animations,
                                                  UnpackL(attachment_count.val))
    IN  Return(attachments,
               [header |-> header.val,
                active_bone_count |-> UnpackL(active_bone_count.val),
                frame_count |-> UnpackL(frame_count.val),
                animation_duration |-> UnpackF(animation_duration.val),
                root_position |-> UnpackVec3(root_pos1.val),
                bones |-> bones.val,
                animations |-> animations.val,
                attachments |-> attachments.val])

(***************************************************************************)
(* TMMWriter                                                               *)
(***************************************************************************)
TMMWriter_write_header(header) ==
    PackL(header.magic) \o PackL(header.version) \o PackH(header.dp)

TMMWriter_write_import_block == PackL(4) \o PackL(0)

TMMWriter_write_bounding_box(bbox) ==
    PackF(bbox.min_x) \o PackF(bbox.min_y) \o PackF(bbox.min_z)
    \o PackF(bbox.max_x) \o PackF(bbox.max_y) \o PackF(bbox.max_z)

\* placeholder in the source: 8 blocks of (start, length) = (0, 0)
TMMWriter_write_block_info == Concat([k \in 1..8 |-> PackL(0) \o PackL(0)])

\* [matrix[i][j] for i in range(4) for j in range(3)]
TMMWriter_write_matrix_4x3(matrix) ==
    Concat([k \in 1..12 |-> PackF(matrix[((k - 1) \div 3) + 1][((k - 1) % 3) + 1])])

TMMWriter_write_main_matrix(matrix) == TMMWriter_write_matrix_4x3(matrix)

\* no transpose here
TMMWriter_write_matrix(matrix) == PackRows(matrix)

WriteName(name) == PackL(Len(name)) \o EncodeUTF16LE(name)

RECURSIVE TMMWriter_write_attachments(_)
TMMWriter_write_attachments(attachments) ==
    IF attachments = <<>> THEN <<>>
    ELSE LET a == Head(attachments)
         IN  PackL(0) \o PackSL(a.parent_bone_id) \o WriteName(a.name)
             \o TMMWriter_write_matrix_4x3(a.transform_matrix1)
             \o TMMWriter_write_matrix_4x3(a.transform_matrix2)
             \o PackL(a.unknown_zero1) \o PackL(a.unknown_zero2)
             \o WriteName(a.second_name)
             \o PackSL(a.unknown_ints[1]) \o PackSL(a.unknown_ints[2])
             \o PackSL(a.unknown_ints[3]) \o PackSL(a.unknown_ints[4])
             \o TMMWriter_write_attachments(Tail(attachments))

RECURSIVE TMMWriter_write_mesh_groups(_)
TMMWriter_write_mesh_groups(mesh_groups) ==
    IF mesh_groups = <<>> THEN <<>>
    ELSE LET group == Head(mesh_groups)
         IN  PackL(group.verts_start) \o PackL(group.tris_start)
             \o PackL(group.num_verts) \o PackL(group.num_tri_verts)
             \o PackL(group.mat_index) \o PackL(group.default_index)
             \o TMMWriter_write_mesh_groups(Tail(mesh_groups))

RECURSIVE TMMWriter_write_materials(_)
TMMWriter_write_materials(materials) ==
    IF materials = <<>> THEN <<>>
    ELSE WriteName(Head(materials)) \o TMMWriter_write_materials(Tail(materials))

TMMWriter_write_defaults(defaults) == TMMWriter_write_materials(defaults)

RECURSIVE TMMWriter_write_bones(_)
TMMWriter_write_bones(bones) ==
    IF bones = <<>> THEN <<>>
    ELSE LET bone == Head(bones)
         IN  WriteName(bone.name) \o PackSL(bone.parent_id)
             \o PackVec3(bone.quaternion) \o PackF(bone.radius)
             \o TMMWriter_write_matrix(bone.parent_space_matrix)
             \o TMMWriter_write_matrix(bone.world_space_matrix)
             \o TMMWriter_write_matrix(bone.inverse_bind_matrix)
             \o TMMWriter_write_bones(Tail(bones))

\* no step of the mesh encoder raises on the documents modelled here
TMMWriter_write_file(d) ==
    Wrote(TMMWriter_write_header(d.header)
          \o TMMWriter_write_import_block
          \o TMMWriter_write_bounding_box(d.bounding_box)
          \o TMMWriter_write_bounding_box(d.bigger_bounding_box)
          \o PackF(d.unknown_float)
          \o PackL(Len(d.mesh_groups))
          \o PackL(Len(d.materials))
          \o PackL(Len(d.defaults))
          \o PackL(Len(d.bones))
          \o PackL(0)
          \o PackL(Len(d.attachments))
          \o PackL(Len(d.vertices))
          \o PackL(Len(d.triangles) * 3)
          \o TMMWriter_write_block_info
          \o PackB(0) \o PackB(1)
          \o TMMWriter_write_main_matrix(d.main_matrix)
          \o TMMWriter_write_attachments(d.attachments)
          \o TMMWriter_write_mesh_groups(d.mesh_groups)
          \o TMMWriter_write_materials(d.materials)
          \o TMMWriter_write_defaults(d.defaults)
          \o TMMWriter_write_bones(d.bones))

(***************************************************************************)
(* TMMReader                                                               *)
(***************************************************************************)
\* assert magic == 1296913474
TMMMagicOK(magic) == magic = TMM_MAGIC

TMMReader_read_header(f, s) ==
    LET magic == ReadStruct(f, s, 4)
        version == ReadStruct(f, Check(magic, TMMMagicOK(UnpackL(magic.val))), 4)
        dp == ReadStruct(f, version, 2)
    IN  Return(dp, [magic |-> UnpackL(magic.val),
                    version |-> UnpackL(version.val),
                    dp |-> UnpackH(dp.val)])

\* a run of struct.unpack(fmt, f.read(w)) for the widths in ws: s.val grows
\* by the chunks read, until struct.error at the first short one
RECURSIVE ReadFields(_, _, _)
ReadFields(f, s, ws) ==
    IF s.err # "" \/ ws = <<>> THEN s
    ELSE ReadFields(f, Appended(s.val, ReadStruct(f, s, Head(ws))), Tail(ws))

\* f.read(name_length) after the length field n, the result dropped
SkipName(f, n) ==
    IF n.err # "" THEN n ELSE SkipRead(f, n, Times(UnpackL(n.val), 2))

\* the loop of _skip_import_block: a checked length, then two unchecked reads
RECURSIVE SkipImports(_, _, _)
SkipImports(f, s, num_imports) ==
    IF s.err # "" \/ num_imports = 0 THEN s
    ELSE SkipImports(f, SkipRead(f, SkipName(f, ReadStruct(f, s, 4)), 16),
                     num_imports - 1)

TMMReader_skip_import_block(f, s) ==
    LET num_imports == ReadStruct(f, ReadStruct(f, s, 4), 4)
    IN  SkipImports(f, num_imports, UnpackL(num_imports.val))

BoundingBox(b) ==
    Return(b, [min_x |-> UnpackF(SubSeq(b.val, 1, 4)),
               min_y |-> UnpackF(SubSeq(b.val, 5, 8)),
               min_z |-> UnpackF(SubSeq(b.val, 9, 12)),
               max_x |-> UnpackF(SubSeq(b.val, 13, 16)),
               max_y |-> UnpackF(SubSeq(b.val, 17, 20)),
               max_z |-> UnpackF(SubSeq(b.val, 21, 24))])

TMMReader_read_bounding_box(f, s) == BoundingBox(ReadStruct(f, s, 24))

\* 8 (start, length) pairs: vertices, triangles, weights, unknown1..3,
\* heights, last unknown
BlockInfo(b) ==
    Return(b, [k \in 1..8 |-> << UnpackL(b.val[2 * k - 1]), UnpackL(b.val[2 * k]) >>])

TMMReader_read_block_info(f, s) ==
    BlockInfo(ReadFields(f, Return(s, <<>>), [k \in 1..16 |-> 4]))

\* Matrix(np.array(list(matrix_data) + [0, 0, 0, 1]).reshape(4, 4)) of 48 bytes
Reshape43(b) ==
    [r \in 1..4 |-> [c \in 1..4 |->
        IF r = 4 THEN (IF c = 4 THEN UnpackF(F32_ONE) ELSE 0)
        ELSE UnpackF(SubSeq(b, 16 * (r - 1) + 4 * (c - 1) + 1, 16 * (r - 1) + 4 * c))]]

MainMatrix(b) == Return(b, Reshape43(b.val))

TMMReader_read_main_matrix(f, s) == MainMatrix(ReadStruct(f, s, 48))

\* one pass of the loop of _read_attachments
TMMReader_read_attachment(f, s) ==
    LET ids == ReadFields(f, Return(s, <<>>), << 4, 4 >>)
        name == ReadString(f, ids)
        matrices == ReadFields(f, Return(name, <<>>), << 48, 48, 4, 4 >>)
        second_name == ReadString(f, matrices)
        unknown_ints == ReadStruct(f, second_name, 16)
    IN  Return(unknown_ints,
               [name |-> name.val,
                parent_bone_id |-> UnpackSL(ids.val[2]),
                transform_matrix1 |-> Reshape43(matrices.val[1]),
                transform_matrix2 |-> Reshape43(matrices.val[2]),
                unknown_zero1 |-> UnpackL(matrices.val[3]),
                unknown_zero2 |-> UnpackL(matrices.val[4]),
                second_name |-> second_name.val,
                unknown_ints |-> [k \in 1..4 |->
                    UnpackSL(SubSeq(unknown_ints.val, 4 * k - 3, 4 * k))]])

\* s.val is the list of the attachments read so far
RECURSIVE TMMReader_read_attachments(_, _, _)
TMMReader_read_attachments(f, s, num_attachments) ==
    IF s.err # "" \/ num_attachments = 0 THEN s
    ELSE TMMReader_read_attachments(f,
             Appended(s.val, TMMReader_read_attachment(f, s)), num_attachments - 1)

MeshGroup(g) ==
    Return(g, [verts_start |-> UnpackL(g.val[1]),
               tris_start |-> UnpackL(g.val[2]),
               num_verts |-> UnpackL(g.val[3]),
               num_tri_verts |-> UnpackL(g.val[4]),
               num_tris |-> UnpackL(g.val[4]) \div 3,
               mat_index |-> UnpackL(g.val[5]),
               default_index |-> UnpackL(g.val[6])])

RECURSIVE TMMReader_read_mesh_groups(_, _, _)
TMMReader_read_mesh_groups(f, s, num_mesh_groups) ==
    IF s.err # "" \/ num_mesh_groups = 0 THEN s
    ELSE TMMReader_read_mesh_groups(f,
             Appended(s.val,
                      MeshGroup(ReadFields(f, Return(s, <<>>), << 4, 4, 4, 4, 4, 4 >>))),
             num_mesh_groups - 1)

RECURSIVE TMMReader_read_materials(_, _, _)
TMMReader_read_materials(f, s, num_materials) ==
    IF s.err # "" \/ num_materials = 0 THEN s
    ELSE TMMReader_read_materials(f, Appended(s.val, ReadString(f, s)),
                                  num_materials - 1)

TMMReader_read_defaults(f, s, num_defaults) ==
    TMMReader_read_materials(f, s, num_defaults)

\* no transpose here
Matrix(b) == Return(b, Reshape44(b.val))

TMMReader_read_matrix(f, s) == Matrix(ReadStruct(f, s, 64))

\* one pass of the loop of _read_bones
TMMReader_read_bone(f, s) ==
    LET name == ReadString(f, s)
        fields == ReadFields(f, Return(name, <<>>), << 4, 12, 4 >>)
        parent_space_matrix == TMMReader_read_matrix(f, fields)
        world_space_matrix == TMMReader_read_matrix(f, parent_space_matrix)
        inverse_bind_matrix == TMMReader_read_matrix(f, world_space_matrix)
    IN  Return(inverse_bind_matrix,
               [name |-> name.val,
                parent_id |-> UnpackSL(fields.val[1]),
                quaternion |-> UnpackVec3(fields.val[2]),
                radius |-> UnpackF(fields.val[3]),
                parent_space_matrix |-> parent_space_matrix.val,
                world_space_matrix |-> world_space_matrix.val,
                inverse_bind_matrix |-> inverse_bind_matrix.val])

RECURSIVE TMMReader_read_bones(_, _, _)
TMMReader_read_bones(f, s, num_bones) ==
    IF s.err # "" \/ num_bones = 0 THEN s
    ELSE TMMReader_read_bones(f, Appended(s.val, TMMReader_read_bone(f, s)),
                              num_bones - 1)

TMMReader_parse_file(f) ==
    LET header == TMMReader_read_header(f, Opened)
        bounding_box ==
            TMMReader_read_bounding_box(f, TMMReader_skip_import_block(f, header))
        bigger_bounding_box == TMMReader_read_bounding_box(f, bounding_box)
        \* unknown_float, then the 8 counts: mesh groups, materials, defaults,
        \* bones, unknown2, attachments, vertices, triangle vertices
        counts == ReadFields(f, Return(bigger_bounding_box, <<>>), [k \in 1..9 |-> 4])
        block_info == TMMReader_read_block_info(f, counts)
        unknown_bools == ReadStruct(f, block_info, 2)
        main_matrix == TMMReader_read_main_matrix(f, unknown_bools)
        attachments == TMMReader_read_attachments(f, Return(main_matrix, <<>>),
                                                  UnpackL(counts.val[7]))
        mesh_groups == TMMReader_read_mesh_groups(f, Return(attachments, <<>>),
                                                  UnpackL(counts.val[2]))
        materials == TMMReader_read_materials(f, Return(mesh_groups, <<>>),
                                              UnpackL(counts.val[3]))
        defaults == TMMReader_read_defaults(f, Return(materials, <<>>),
                                            UnpackL(counts.val[4]))
        bones == TMMReader_read_bones(f, Return(defaults, <<>>),
                                      UnpackL(counts.val[5]))
    IN  Return(bones,
               [header |-> header.val,
                bounding_box |-> bounding_box.val,
                bigger_bounding_box |-> bigger_bounding_box.val,
                unknown_float |-> UnpackF(counts.val[1]),
                mesh_groups |-> mesh_groups.val,
                materials |-> materials.val,
                defaults |-> defaults.val,
                bones |-> bones.val,
                attachments |-> attachments.val,
                vertices |-> << >>,         \* placeholder in the source
                triangles |-> << >>,        \* placeholder in the source
                main_matrix |-> main_matrix.val])

(***************************************************************************)
(* The standalone mesh exporter (export_tmm_file.py)                       *)
(* Its floats are integers here, packed as IEEE numbers.  The scene holds  *)
(* what Blender hands to the script: the canonical vertex and triangle     *)
(* lists of each material group and the matrices of the armature.          *)
(* struct.pack("L", v) has no "<": the size of L is the platform's, 4 or   *)
(* 8 bytes (lsize).                                                        *)
(***************************************************************************)
\* floor(log2(x)) for 1 <= x < 2^24
Log2(x) == CHOOSE e \in 0..23 : 2 ^ e <= x /\ x < 2 ^ (e + 1)

\* struct.pack("<f", x) for an integer |x| < 2^24
PackF32(x) ==
    IF x = 0 THEN << 0, 0, 0, 0 >>
    ELSE LET e == Log2(Abs(x))
             bits == (e + 127) * 8388608 + (Abs(x) - 2 ^ e) * 2 ^ (23 - e)
             b == PackL(bits)
         IN  << b[1], b[2], b[3], b[4] + (IF x < 0 THEN 128 ELSE 0) >>

\* struct.pack("<e", x) for an integer |x| < 2048
PackE(x) ==
    IF x = 0 THEN << 0, 0 >>
    ELSE LET e == Log2(Abs(x))
             bits == (e + 15) * 1024 + (Abs(x) - 2 ^ e) * 2 ^ (10 - e)
         IN  << bits % 256, (bits \div 256) + (IF x < 0 THEN 128 ELSE 0) >>

\* struct.pack("L", v) and struct.pack("l", v), native size
PackNativeL(v, lsize) ==
    PackSL(v) \o (IF lsize = 8
                  THEN (IF v < 0 THEN << 255, 255, 255, 255 >> ELSE << 0, 0, 0, 0 >>)
                  ELSE << >>)

RECURSIVE PackFloats(_)
PackFloats(xs) == IF xs = <<>> THEN <<>> ELSE PackF32(Head(xs)) \o PackFloats(Tail(xs))

RECURSIVE PackNativeLs(_, _)
PackNativeLs(vs, lsize) ==
    IF vs = <<>> THEN <<>>
    ELSE PackNativeL(Head(vs), lsize) \o PackNativeLs(Tail(vs), lsize)

(***************************************************************************)
(* Mesh groups built from the Blender mesh                                 *)
(*   ob.me.vertices[i] = [co, groups], groups[k] = [group, weight]         *)
(*   ob.me.polygons[j] = [material_index, loops], loops[i] =               *)
(*                       [vertex_index, uv, normal]                        *)
(* Vertex-group weights are multiples of 1 / WUnit.                        *)
(***************************************************************************)
WUnit == 4

\* round(num / den) as Python 3 rounds: halves go to the even neighbour
RoundHalfEven(num, den) ==
    LET q == num \div den
        r == num % den
    IN  IF 2 * r < den THEN q
        ELSE IF 2 * r > den THEN q + 1
        ELSE q + (q % 2)

\* a list grown by "index of the item, or append it": first occurrences
RECURSIVE Canonical(_)
Canonical(items) ==
    IF items = <<>> THEN <<>>
    ELSE LET front == Canonical(SubSeq(items, 1, Len(items) - 1))
         IN  IF \E k \in 1..Len(front) : front[k] = items[Len(items)]
             THEN front
             ELSE Append(front, items[Len(items)])

\* list.index(x), 0-based
IndexOf(list, x) == (CHOOSE k \in 1..Len(list) : list[k] = x) - 1

\* material_groups: material_index -> polygon indices, keys in insertion order
material_groups(polygons) ==
    LET keys == Canonical([j \in 1..Len(polygons) |-> polygons[j].material_index])
    IN  [k \in 1..Len(keys) |->
            [mat_index |-> keys[k],
             tri_indices |-> SelectSeq([j \in 1..Len(polygons) |-> j],
                                       LAMBDA j : polygons[j].material_index = keys[k])]]

\* bone_name_to_id.get(vg.name): -1 stands for None
bone_name_to_id(bones, name) ==
    IF \E i \in 1..Len(bones) : bones[i].name = name
    THEN (CHOOSE i \in 1..Len(bones) : bones[i].name = name) - 1
    ELSE -1

\* (bone_id, g.weight) of the vertex groups that are named after a bone
BoneWeights(ob, vert) ==
    LET pairs == [k \in 1..Len(vert.groups) |->
                    << bone_name_to_id(ob.bones, ob.vertex_groups[vert.groups[k].group + 1]),
                       vert.groups[k].weight >>]
    IN  SelectSeq(pairs, LAMBDA p : p[1] # -1)

\* sort(key=lambda x: x[1], reverse=True): descending, equal weights keep
\* their order
RECURSIVE SortedByWeight(_)
SortedByWeight(items) ==
    IF items = <<>> THEN <<>>
    ELSE LET rest == SortedByWeight(Tail(items))
             n == Cardinality({k \in 1..Len(rest) : rest[k][2] > Head(items)[2]})
         IN  SubSeq(rest, 1, n) \o << Head(items) >> \o SubSeq(rest, n + 1, Len(rest))

\* items[:4]
First4(items) == SubSeq(items, 1, Min(Len(items), 4))

\* the exporter's weights of a vertex: the 4 largest, scaled to sum to 255
weight_items(ob, vert) ==
    IF ~ob.armature THEN << >>
    ELSE LET items == First4(SortedByWeight(BoneWeights(ob, vert)))
             total_weight == SumSeq([k \in 1..Len(items) |-> items[k][2]])
         IN  IF total_weight > 0
             THEN [k \in 1..Len(items) |->
                     << items[k][1], RoundHalfEven(items[k][2] * 255, total_weight) >>]
             ELSE << >>

\* canon_vertex_candidate of one loop (tangent and bitangent go with normal)
canon_vertex_candidate(ob, loop) ==
    [co |-> ob.me.vertices[loop.vertex_index + 1].co,
     uv |-> loop.uv,
     normal |-> loop.normal,
     weights |-> weight_items(ob, ob.me.vertices[loop.vertex_index + 1])]

\* the loops of the polygons tri_indices, three per polygon, in order
GroupLoops(ob, tri_indices) ==
    Concat([t \in 1..Len(tri_indices) |-> ob.me.polygons[tri_indices[t]].loops])

\* (mat_index, canon_vertex_list, triangle_list) of one material
ExportGroup(ob, group) ==
    LET loops == GroupLoops(ob, group.tri_indices)
        candidates == [i \in 1..Len(loops) |-> canon_vertex_candidate(ob, loops[i])]
        canon_vertex_list == Canonical(candidates)
    IN  [mat_index |-> group.mat_index,
         verts |-> canon_vertex_list,
         tris |-> [t \in 1..Len(group.tri_indices) |->
                     [i \in 1..3 |-> IndexOf(canon_vertex_list, candidates[3 * (t - 1) + i])]]]

\* mesh_groups of the export script
export_mesh_groups(ob) ==
    LET groups == material_groups(ob.me.polygons)
    IN  [k \in 1..Len(groups) |-> ExportGroup(ob, groups[k])]

\* TMMManager._process_material_group: weights are rounded one by one
TMMManager_weights(ob, vert) ==
    IF ~ob.armature THEN << >>
    ELSE LET raw == BoneWeights(ob, vert)
         IN  First4(SortedByWeight(
                 [k \in 1..Len(raw) |->
                     << raw[k][1], RoundHalfEven(raw[k][2] * 255, WUnit) >>]))

TMMManager_vertex(ob, loop) ==
    [position |-> ob.me.vertices[loop.vertex_index + 1].co,
     uv |-> loop.uv,
     normal |-> loop.normal,
     weights |-> TMMManager_weights(ob, ob.me.vertices[loop.vertex_index + 1])]

TMMManager_process_material_group(ob, tri_indices) ==
    LET loops == GroupLoops(ob, tri_indices)
        keys == [i \in 1..Len(loops) |-> TMMManager_vertex(ob, loops[i])]
        vertices == Canonical(keys)
    IN  [vertices |-> vertices,
         triangles |-> [t \in 1..Len(tri_indices) |->
                          [vertices |-> [i \in 1..3 |->
                                           IndexOf(vertices, keys[3 * (t - 1) + i])]]]]

\* a group record that starts at 0 whatever came before it
OffsetsAtZero(acc, mat_index, g) ==
    [mesh_groups |-> Append(acc.mesh_groups,
                        [verts_start |-> 0,
                         tris_start |-> 0,
                         num_verts |-> Len(g.vertices),
                         num_tri_verts |-> Len(g.triangles) * 3,
                         num_tris |-> Len(g.triangles),
                         mat_index |-> mat_index,
                         default_index |-> 0]),
     all_vertices |-> acc.all_vertices \o g.vertices,
     all_triangles |-> acc.all_triangles \o g.triangles,
     vertex_offset |-> acc.vertex_offset + Len(g.vertices)]

\* one turn of the loop of _process_mesh_data: the group starts where the
\* groups made so far end
AppendedGroup(acc, mat_index, g) ==
    [mesh_groups |-> Append(acc.mesh_groups,
                        [verts_start |-> acc.vertex_offset,
                         tris_start |-> Len(acc.all_triangles) * 3,
                         num_verts |-> Len(g.vertices),
                         num_tri_verts |-> Len(g.triangles) * 3,
                         num_tris |-> Len(g.triangles),
                         mat_index |-> mat_index,
                         default_index |-> 0]),
     all_vertices |-> acc.all_vertices \o g.vertices,
     all_triangles |-> acc.all_triangles \o g.triangles,
     vertex_offset |-> acc.vertex_offset + Len(g.vertices)]

RECURSIVE ProcessGroups(_, _, _)
ProcessGroups(ob, groups, acc) ==
    IF groups = <<>> THEN acc
    ELSE ProcessGroups(ob, Tail(groups),
             AppendedGroup(acc, Head(groups).mat_index,
                 TMMManager_process_material_group(ob, Head(groups).tri_indices)))

\* mesh_groups, all_vertices, all_triangles (materials: see material_slots)
TMMManager_process_mesh_data(ob) ==
    ProcessGroups(ob, material_groups(ob.me.polygons),
        [mesh_groups |-> << >>, all_vertices |-> << >>,
         all_triangles |-> << >>, vertex_offset |-> 0])

\* a float of the scene as the mesh manager's model keeps floats: one
\* natural number per value
FloatOf(x) == IF x >= 0 THEN 2 * x ELSE -2 * x - 1

FloatsOf(m) == [r \in 1..Len(m) |-> [c \in 1..Len(m[r]) |-> FloatOf(m[r][c])]]

\* bbox[0] and bbox[-2] of mesh_object.bound_box, y and z swapped
TMMManager_calculate_bounding_box(ob) ==
    [min_x |-> FloatOf(ob.bound_box_min[1]), min_y |-> FloatOf(ob.bound_box_min[3]),
     min_z |-> FloatOf(ob.bound_box_min[2]),
     max_x |-> FloatOf(ob.bound_box_max[1]), max_y |-> FloatOf(ob.bound_box_max[3]),
     max_z |-> FloatOf(ob.bound_box_max[2])]

TMMManager_calculate_bigger_bounding_box(ob) ==
    IF ~ob.armature THEN TMMManager_calculate_bounding_box(ob)
    ELSE LET big_size == 3 * ob.bound_box_max[2]
         IN  [min_x |-> FloatOf(-big_size), min_y |-> FloatOf(-big_size),
              min_z |-> FloatOf(-big_size),
              max_x |-> FloatOf(big_size), max_y |-> FloatOf(big_size),
              max_z |-> FloatOf(big_size)]

IsDigit(c) == c >= 48 /\ c <= 57

\* re.sub(r"\.\d{3}$", "", name)
CleanName(name) ==
    LET n == Len(name)
    IN  IF n >= 4 /\ name[n - 3] = 46 /\ IsDigit(name[n - 2])
           /\ IsDigit(name[n - 1]) /\ IsDigit(name[n])
        THEN SubSeq(name, 1, n - 4)
        ELSE name

TMMManager_get_attachments(ob) ==
    [i \in 1..Len(ob.attachments) |->
        [name |-> CleanName(ob.attachments[i].name),
         parent_bone_id |-> ob.attachments[i].parent_id,
         transform_matrix1 |-> FloatsOf(ob.attachments[i].matrix_local),
         transform_matrix2 |-> FloatsOf(ob.attachments[i].matrix_world),
         unknown_zero1 |-> 0,
         unknown_zero2 |-> 0,
         second_name |-> << >>,
         unknown_ints |-> << -1, 0, 0, 0 >>]]

\* matrix_local is the bone's world_space_mat, its inverse inverse_bind_mat
TMMManager_get_bones(ob) ==
    [i \in 1..Len(ob.bones) |->
        [name |-> ob.bones[i].name,
         parent_id |-> ob.bones[i].parent_index,
         quaternion |-> << FloatOf(0), FloatOf(0), FloatOf(0) >>,
         radius |-> FloatOf(ob.bones[i].head_radius),
         parent_space_matrix |-> FloatsOf(ob.bones[i].world_space_mat),
         world_space_matrix |-> FloatsOf(ob.bones[i].world_space_mat),
         inverse_bind_matrix |-> FloatsOf(ob.bones[i].inverse_bind_mat)]]

\* the TMMFile that create_from_blender_mesh hands to write_tmm
TMMManager_create_from_blender_mesh(ob) ==
    LET data == TMMManager_process_mesh_data(ob)
    IN  [header |-> [magic |-> 1296913474, version |-> 35, dp |-> 20548],
         bounding_box |-> TMMManager_calculate_bounding_box(ob),
         bigger_bounding_box |-> TMMManager_calculate_bigger_bounding_box(ob),
         unknown_float |-> FloatOf(ob.bound_box_max[2]),
         mesh_groups |-> data.mesh_groups,
         materials |-> ob.materials,
         defaults |-> << << 100, 101, 102, 97, 117, 108, 116 >> >>,
         bones |-> IF ob.armature THEN TMMManager_get_bones(ob) ELSE << >>,
         attachments |-> IF ob.armature THEN TMMManager_get_attachments(ob) ELSE << >>,
         vertices |-> data.all_vertices,
         triangles |-> data.all_triangles,
         main_matrix |-> FloatsOf([r \in 1..4 |-> [c \in 1..4 |-> IF r = c THEN 1 ELSE 0]])]

\* total_vertices, total_triangles
TotalVertices(mesh_groups) == SumSeq([k \in 1..Len(mesh_groups) |-> Len(mesh_groups[k].verts)])

TotalTriangles(mesh_groups) == SumSeq([k \in 1..Len(mesh_groups) |-> Len(mesh_groups[k].tris)])

\* the (start, length) pairs written to the .tmm file, in the order of the
\* writes: vertices, triangles, weights, two unknown pairs, heights, one
\* unknown pair
ExportBlockTable(total_vertices, total_triangles) ==
    << 0, total_vertices * 16,
       total_vertices * 16, total_triangles * 3 * 2,
       total_vertices * 16 + total_triangles * 3 * 2, total_vertices * 8,
       0, 0, 0, 0,
       total_vertices * 16 + total_triangles * 3 * 2 + total_vertices * 8,
       total_vertices * 2,
       0, 0 >>

\* [f for row in m for f in row][:12]
First12(m) == [k \in 1..12 |-> m[((k - 1) \div 4) + 1][((k - 1) % 4) + 1]]

\* [f for row in m.transposed() for f in row]
TransposedList(m) == [k \in 1..16 |-> m[((k - 1) % 4) + 1][((k - 1) \div 4) + 1]]

RECURSIVE ExportAttachments(_, _)
ExportAttachments(attachments, lsize) ==
    IF attachments = <<>> THEN <<>>
    ELSE LET a == Head(attachments)
         IN  PackNativeL(0, lsize) \o PackNativeL(a.parent_id, lsize)
             \o WriteName(CleanName(a.name))
             \o PackFloats(First12(a.matrix_local))
             \o PackFloats(First12(a.matrix_local))
             \o PackNativeLs(<< 0, 0, 0 >>, lsize)
             \o PackNativeLs(<< -1, 0, 0, 0 >>, lsize)
             \o ExportAttachments(Tail(attachments), lsize)

\* the mesh group records; shader technique index 1
RECURSIVE ExportMeshGroups(_, _, _, _)
ExportMeshGroups(mesh_groups, verts_offset, tris_offset, lsize) ==
    IF mesh_groups = <<>> THEN <<>>
    ELSE LET g == Head(mesh_groups)
         IN  PackNativeLs(<< verts_offset, tris_offset, Len(g.verts), Len(g.tris) * 3,
                             g.mat_index, 1 >>, lsize)
             \o ExportMeshGroups(Tail(mesh_groups), verts_offset + Len(g.verts),
                                 tris_offset + Len(g.tris) * 3, lsize)

RECURSIVE ExportNames(_)
ExportNames(names) ==
    IF names = <<>> THEN <<>> ELSE WriteName(Head(names)) \o ExportNames(Tail(names))

RECURSIVE ExportBones(_, _)
ExportBones(bones, lsize) ==
    IF bones = <<>> THEN <<>>
    ELSE LET bone == Head(bones)
         IN  WriteName(bone.name) \o PackNativeL(bone.parent_index, lsize)
             \o PackFloats(<< 0, 0, 0 >>) \o PackF32(bone.head_radius)
             \o PackFloats(TransposedList(bone.parent_space_mat))
             \o PackFloats(TransposedList(bone.world_space_mat))
             \o PackFloats(TransposedList(bone.inverse_bind_mat))
             \o ExportBones(Tail(bones), lsize)

\* "default"
DefaultTechnique == << 100, 101, 102, 97, 117, 108, 116 >>

\* everything written to output.tmm
ExportTMMFile(scene, lsize) ==
    LET lo == scene.bound_box_min
        hi == scene.bound_box_max
        bb == << lo[1], lo[3], lo[2], hi[1], hi[3], hi[2] >>
        big_bb_size == 3 * hi[3]
        total_vertices == TotalVertices(scene.mesh_groups)
        total_triangles == TotalTriangles(scene.mesh_groups)
    IN  PackNativeLs(<< TMM_MAGIC, TMM_VERSION >>, lsize) \o PackH(DP)
        \o PackNativeLs(<< 4, 0 >>, lsize)
        \o PackFloats(bb)
        \o (IF ~scene.armature THEN PackFloats(bb)
            ELSE PackFloats(<< -big_bb_size, -big_bb_size, -big_bb_size,
                               big_bb_size, big_bb_size, big_bb_size >>))
        \o PackF32(hi[3])
        \o PackNativeLs(<< Len(scene.mesh_groups), Len(scene.mesh_groups), 1,
                           IF scene.armature THEN Len(scene.bones) ELSE 0,
                           0, Len(scene.attachments),
                           total_vertices, total_triangles * 3 >>, lsize)
        \o PackNativeLs(ExportBlockTable(total_vertices, total_triangles), lsize)
        \o PackB(0) \o PackB(1)
        \o (IF scene.armature THEN PackFloats(First12(scene.main_matrix))
            ELSE PackFloats(<< 1, 0, 0, 0, 0, 1, 0, 0, 0, 0, 1, 0 >>))
        \o ExportAttachments(scene.attachments, lsize)
        \o ExportMeshGroups(scene.mesh_groups, 0, 0, lsize)
        \o ExportNames(scene.materials)
        \o ExportNames(<< DefaultTechnique >>)
        \o (IF scene.armature THEN ExportBones(scene.bones, lsize) ELSE << >>)
        \o PackNativeL(0, lsize)
        \o (IF scene.armature THEN << 0, 0, 0, 0 >> ELSE << >>)
        \o PackB(0) \o PackH(22614) \o PackNativeL(1, lsize) \o PackB(0)

\* the vertices and the triangles of all groups, in order
AllVerts(mesh_groups) == Concat([k \in 1..Len(mesh_groups) |-> mesh_groups[k].verts])

AllTris(mesh_groups) == Concat([k \in 1..Len(mesh_groups) |-> mesh_groups[k].tris])

\* 16 bytes per vertex: x, z, y, u, 1 - v as halves, then n, t, bt
ExportVertex(vert) ==
    PackE(vert.co[1]) \o PackE(vert.co[3]) \o PackE(vert.co[2])
    \o PackE(vert.uv[1]) \o PackE(1 - vert.uv[2])
    \o PackH(8191) \o PackH(24575) \o PackH(24575)

ExportVertices(mesh_groups) ==
    LET vs == AllVerts(mesh_groups)
    IN  Concat([i \in 1..Len(vs) |-> ExportVertex(vs[i])])

\* tri_flipped = (tri[0], tri[2], tri[1])
ExportTriangle(tri) == PackH(tri[1]) \o PackH(tri[3]) \o PackH(tri[2])

ExportTriangles(mesh_groups) ==
    LET ts == AllTris(mesh_groups)
    IN  Concat([i \in 1..Len(ts) |-> ExportTriangle(ts[i])])

\* padded_bws = [(0, 0)] * (4 - len(weights)) + weights; 4 weights, 4 bones
ExportVertexWeights(vert) ==
    LET pad == 4 - Len(vert.weights)
        padded_bws == [k \in 1..4 |-> IF k <= pad THEN << 0, 0 >> ELSE vert.weights[k - pad]]
    IN  [k \in 1..8 |-> IF k <= 4 THEN padded_bws[k][2] ELSE padded_bws[k - 4][1]]

\* written only with an armature
ExportWeights(scene) ==
    IF scene.armature
    THEN LET vs == AllVerts(scene.mesh_groups)
         IN  Concat([i \in 1..Len(vs) |-> ExportVertexWeights(vs[i])])
    ELSE << >>

ExportHeights(mesh_groups) ==
    LET vs == AllVerts(mesh_groups)
    IN  Concat([i \in 1..Len(vs) |-> PackE(vs[i].co[2])])

\* everything written to output.tmm.data
ExportDataFile(scene) ==
    ExportVertices(scene.mesh_groups) \o ExportTriangles(scene.mesh_groups)
    \o ExportWeights(scene) \o ExportHeights(scene.mesh_groups)

(***************************************************************************)
(* export_tma_file.py: the animation of the selected armature              *)
(*   arm.bones[i]   = [name, parent_index, head, parent_space_mat,         *)
(*                     world_space_mat, inverse_bind_mat]                  *)
(*   arm.frame_count = frame_end - frame_start + 1                         *)
(*   arm.fps = fps / fps_base, a divisor of frame_count                    *)
(*   arm.pose[i][f] = [location, rotation] of bone i at frame f            *)
(* Floats are integers here; quaternions are in 1 / QUnit.                 *)
(***************************************************************************)
\* components = [w, z, y, x]
Rearranged(q) == << q[1], q[4], q[3], q[2] >>

\* the 64-bit word of one rotation as four fields: three 20-bit chunks and
\* the stored index.  max_index is reversed before the chunks are encoded.
ExportCompressQuaternion(q) ==
    LET max_index == MaxIndex(Rearranged(q))
        components == IF Rearranged(q)[max_index + 1] < 0
                      THEN [k \in 1..4 |-> -Rearranged(q)[k]]
                      ELSE Rearranged(q)
        remaining == Remaining(components, max_index)
    IN  << EncodeChunk(remaining[1], 0, 3 - max_index),
           EncodeChunk(remaining[2], 1, 3 - max_index),
           EncodeChunk(remaining[3], 2, 3 - max_index),
           (3 - max_index) % 4 >>

RECURSIVE ExportSkeleton(_, _)
ExportSkeleton(bones, lsize) ==
    IF bones = <<>> THEN <<>>
    ELSE WriteName(Head(bones).name)
         \o PackNativeL(Head(bones).parent_index, lsize)
         \o PackFloats(TransposedList(Head(bones).parent_space_mat))
         \o PackFloats(TransposedList(Head(bones).world_space_mat))
         \o PackFloats(TransposedList(Head(bones).inverse_bind_mat))
         \o ExportSkeleton(Tail(bones), lsize)

\* the keys of one pose bone: positions, then rotations
ExportPositions(keys) ==
    Concat([f \in 1..Len(keys) |-> PackFloats(keys[f].location)])

ExportRotations(keys) ==
    Concat([f \in 1..Len(keys) |-> PackQ(ExportCompressQuaternion(keys[f].rotation))])

\* always position_mode 1 and rotation_mode 3
ExportPoseBone(name, keys, frame_count, lsize) ==
    WriteName(name)
    \o PackB(1) \o PackB(1) \o PackB(3) \o PackB(0)
    \o PackNativeL(frame_count, lsize)
    \o PackNativeL(frame_count * 12, lsize) \o ExportPositions(keys)
    \o PackNativeL(frame_count * 8, lsize) \o ExportRotations(keys)
    \o PackFloats(<< 1, 1, 1, 1 >>)

\* everything written before bones[0].head is read
ExportTMAHead(arm, lsize) ==
    PackNativeLs(<< 1095586882, 12 >>, lsize) \o PackH(20548)
    \o PackNativeLs(<< 4, 0 >>, lsize)
    \o PackNativeL(Len(arm.bones), lsize)
    \o PackNativeL(arm.frame_count, lsize)
    \o PackF32(arm.frame_count \div arm.fps)

\* bones[0] raises IndexError on an armature without bones
ExportTMAFile(arm, lsize) ==
    IF arm.bones = <<>> THEN Failed(ExportTMAHead(arm, lsize), "IndexError")
    ELSE Wrote(ExportTMAHead(arm, lsize)
               \o PackFloats(arm.bones[1].head) \o PackFloats(arm.bones[1].head)
               \o PackNativeL(Len(arm.bones), lsize)
               \o PackNativeL(0, lsize)
               \o ExportSkeleton(arm.bones, lsize)
               \o Concat([i \in 1..Len(arm.bones) |->
                     ExportPoseBone(arm.bones[i].name, arm.pose[i], arm.frame_count, lsize)])
               \o PackNativeL(0, lsize)
               \o PackNativeL(0, lsize))

(***************************************************************************)
(* import_tma_file.py: a .tma file loaded onto a new armature              *)
(* The steps thread the reader state s as those of TMAReader do.           *)
(***************************************************************************)
\* the three asserts of the header
ImportHeader(f, s) ==
    LET BTMA == ReadStruct(f, s, 4)
        version == ReadStruct(f, Check(BTMA, UnpackL(BTMA.val) = 1095586882), 4)
        dp == ReadStruct(f, Check(version, UnpackL(version.val) = 12), 2)
    IN  Check(dp, UnpackH(dp.val) = 20548)

\* bone_list[bone_parent_index][0], "" on IndexError
ParentName(bone_list, bone_parent_index) ==
    IF bone_parent_index < Len(bone_list) THEN bone_list[bone_parent_index + 1][1]
    ELSE << >>

\* the edit bone of bone i: skipped when the name is in the armature, else
\* added under its parent, which every bone but the first must have
ImportedBone(acc, s, i, bone_name, parent_name) ==
    IF s.err # "" THEN s
    ELSE IF bone_name \in acc.ebs
    THEN Ok(s.pos, [bone_list |-> Append(acc.bone_list, << bone_name, parent_name >>),
                    ebs |-> acc.ebs])
    ELSE IF i > 0 /\ parent_name \notin acc.ebs
    THEN Raise("Exception", s.pos)
    ELSE Ok(s.pos, [bone_list |-> Append(acc.bone_list, << bone_name, parent_name >>),
                    ebs |-> acc.ebs \cup {bone_name}])

ImportBone(f, s, i) ==
    LET bone_name == ReadString(f, s)
        bone_parent_index == ReadStruct(f, bone_name, 4)
        matrices == ReadStruct(f, ReadStruct(f, ReadStruct(f, bone_parent_index, 64), 64), 64)
    IN  ImportedBone(s.val, matrices, i, bone_name.val,
                     ParentName(s.val.bone_list, UnpackL(bone_parent_index.val)))

\* s.val is [bone_list, ebs] so far
RECURSIVE ImportBones(_, _, _, _)
ImportBones(f, s, i, num_bones) ==
    IF s.err # "" \/ i = num_bones THEN s
    ELSE ImportBones(f, ImportBone(f, s, i), i + 1, num_bones)

\* one 20-bit chunk: min(a * norm_scale * quat_factor, 1), positive when the
\* sign bit is set
ImportChunk(chunk) ==
    IF (chunk \div 524288) % 2 = 1
    THEN ((chunk % 524288) * QUnit + 370727) \div 741454
    ELSE -(((chunk % 524288) * QUnit + 370727) \div 741454)

\* the reconstructed component d
Reconstructed(a, b, c) ==
    IF a * a + b * b + c * c >= QUnit * QUnit THEN 0
    ELSE ISqrt(QUnit * QUnit - a * a - b * b - c * c)

\* w, z, y, x by recon, returned as Quaternion((w, x, y, z))
Placed(recon, a, b, c, d) ==
    IF recon = 0 THEN << a, d, -c, -b >>
    ELSE IF recon = 1 THEN << a, -c, d, -b >>
    ELSE IF recon = 2 THEN << a, -c, -b, d >>
    ELSE << d, c, b, a >>

read_rotation(raw) ==
    Placed(raw[4] % 4, ImportChunk(raw[1]), ImportChunk(raw[2]), ImportChunk(raw[3]),
           Reconstructed(ImportChunk(raw[1]), ImportChunk(raw[2]), ImportChunk(raw[3])))

\* rot.negate() when rotations[i - 1].dot(rot) < 0; at i = 0 the list is
\* empty and the IndexError is swallowed
Cleaned(rotations, rot) ==
    IF rotations # << >>
       /\ rotations[Len(rotations)][1] * rot[1] + rotations[Len(rotations)][2] * rot[2]
          + rotations[Len(rotations)][3] * rot[3] + rotations[Len(rotations)][4] * rot[4] < 0
    THEN << -rot[1], -rot[2], -rot[3], -rot[4] >>
    ELSE rot

AppendedRotation(rotations, b) ==
    IF b.err # "" THEN b
    ELSE Ok(b.pos, Append(rotations, Cleaned(rotations, read_rotation(UnpackQ(b.val)))))

RECURSIVE ImportQuats(_, _, _)
ImportQuats(f, s, n) ==
    IF s.err # "" \/ n = 0 THEN s
    ELSE ImportQuats(f, AppendedRotation(s.val, ReadStruct(f, s, 8)), n - 1)

\* a float negated: kept apart from every float that was read
FloatNeg(v) == -1 - v

\* Quaternion((-static_w, static_z, static_y, static_x)) * num_frames
StaticRotation(b, num_frames) ==
    Return(b, [k \in 1..num_frames |->
                 << FloatNeg(UnpackF(SubSeq(b.val, 13, 16))), UnpackF(SubSeq(b.val, 1, 4)),
                    UnpackF(SubSeq(b.val, 5, 8)), UnpackF(SubSeq(b.val, 9, 12)) >>])

ImportTranslations(f, s, position_mode, num_frames) ==
    IF s.err # "" THEN s
    ELSE IF position_mode = 0 THEN Repeated(f, ReadStruct(f, s, 12), num_frames)
    ELSE IF position_mode = 1 THEN ReadVec3s(f, SkipRead(f, s, 4), num_frames)
    ELSE Raise("Exception", s.pos)

ImportRotations(f, s, rotation_mode, num_frames) ==
    IF s.err # "" THEN s
    ELSE IF rotation_mode = 0 THEN StaticRotation(ReadStruct(f, s, 16), num_frames)
    ELSE IF rotation_mode = 3 THEN ImportQuats(f, SkipRead(f, s, 4), num_frames)
    ELSE Raise("Exception", s.pos)

\* the keyframe data of one active bone
ImportTrack(f, s, num_frames_global) ==
    LET bone_name == ReadString(f, s)
        unknown_one == ReadStruct(f, bone_name, 1)
        position_mode == ReadStruct(f, Check(unknown_one, unknown_one.val[1] = 1), 1)
        rotation_mode == ReadStruct(f, position_mode, 1)
        unknown_zero == ReadStruct(f, rotation_mode, 1)
        num_frames == ReadStruct(f, Check(unknown_zero, unknown_zero.val[1] = 0), 4)
        translations ==
            ImportTranslations(f,
                Check(num_frames, UnpackL(num_frames.val) = num_frames_global),
                position_mode.val[1], num_frames_global)
        rotations == ImportRotations(f, Return(translations, << >>),
                                     rotation_mode.val[1], num_frames_global)
    IN  Return(Check(ReadStruct(f, rotations, 16),
                     Len(translations.val) = Len(rotations.val)),
               [bone_name |-> bone_name.val,
                position_mode |-> position_mode.val[1],
                rotation_mode |-> rotation_mode.val[1],
                translations |-> translations.val,
                rotations |-> rotations.val])

RECURSIVE ImportTracks(_, _, _, _)
ImportTracks(f, s, num_active_bones, num_frames_global) ==
    IF s.err # "" \/ num_active_bones = 0 THEN s
    ELSE ImportTracks(f, Appended(s.val, ImportTrack(f, s, num_frames_global)),
                      num_active_bones - 1, num_frames_global)

\* attachment keyframes are read and dropped
RECURSIVE ImportAttachs(_, _, _)
ImportAttachs(f, s, num_attachs) ==
    IF s.err # "" \/ num_attachs = 0 THEN s
    ELSE ImportAttachs(f,
             ReadString(f, SkipRead(f, ReadStruct(f, ReadStruct(f, s, 4), 4), 9)),
             num_attachs - 1)

ImportTMAFile(f) ==
    LET num_active_bones == ReadStruct(f, SeekOver(ReadStruct(f, ImportHeader(f, Opened), 4)), 4)
        num_frames_global == ReadStruct(f, num_active_bones, 4)
        num_bones == ReadStruct(f, ReadStruct(f, num_frames_global, 28), 4)
        num_attachs ==
            ReadStruct(f, Check(num_bones,
                                UnpackL(num_active_bones.val) <= UnpackL(num_bones.val)), 4)
        bones == ImportBones(f, Return(num_attachs, [bone_list |-> << >>, ebs |-> {}]),
                             0, UnpackL(num_bones.val))
        tracks == ImportTracks(f, Return(bones, << >>), UnpackL(num_active_bones.val),
                               UnpackL(num_frames_global.val))
        attachs == ReadStruct(f, tracks, 4)
        unknown_zero == ReadStruct(f, ImportAttachs(f, attachs, UnpackL(attachs.val)), 4)
    IN  Return(Check(unknown_zero, UnpackL(unknown_zero.val) = 0),
               [frame_count |-> UnpackL(num_frames_global.val),
                bones |-> bones.val.bone_list,
                animations |-> tracks.val])

(***************************************************************************)
(* The packed normals as the mesh import script decodes them               *)
(* (read_tmm_data); a decoded vector is in 1 / QUnit.                      *)
(***************************************************************************)
\* bit 15 kept, bits 0..14 inverted
invert_15_bits(val) == (val \div 32768) * 32768 + (32767 - (val % 32768))

\* the 16-bit value of the two bytes read, inverted when bit 6 of the second
\* byte is set
NormalRaw(b) ==
    IF (b[2] \div 64) % 2 = 1 THEN invert_15_bits(b[1] + 256 * b[2])
    ELSE b[1] + 256 * b[2]

\* a and b in 1/127, and the two top bits
unpack_and_normalize(value) ==
    << value % 128, (value \div 128) % 128, (value \div 16384) % 4 >>

Sign(x) == IF x > 0 THEN 1 ELSE IF x < 0 THEN -1 ELSE 0

\* n * QUnit / sqrt(sum_sq), rounded towards zero
Normalized(n, sum_sq) == Sign(n) * ((Abs(n) * QUnit * 8) \div ISqrt(64 * sum_sq))

\* x, y, z in 1/127 before the normalisation
Folded(x, y) ==
    IF 127 - Abs(x) - Abs(y) < 0
    THEN << (127 - Abs(y)) * Sign(x), (127 - Abs(x)) * Sign(y), Abs(x) + Abs(y) - 127 >>
    ELSE << x, y, 127 - Abs(x) - Abs(y) >>

UnitVector(v) ==
    [k \in 1..3 |-> Normalized(v[k], v[1] * v[1] + v[2] * v[2] + v[3] * v[3])]

oct_decode(a, b) == UnitVector(Folded(2 * a - 127, 2 * b - 127))

\* the decoded vector with the two top bits left out of account
UnsignedNormal(b) ==
    oct_decode(unpack_and_normalize(NormalRaw(b))[1],
               unpack_and_normalize(NormalRaw(b))[2])

\* oct_decode(norm_a, norm_b) * (1 if norm_c == 0 else -1)
DecodedNormal(b) ==
    LET u == unpack_and_normalize(NormalRaw(b))
    IN  IF u[3] = 0 THEN oct_decode(u[1], u[2])
        ELSE [k \in 1..3 |-> -oct_decode(u[1], u[2])[k]]

(***************************************************************************)
(* The mesh import script ("import tmm file.py"): output.tmm, then          *)
(* output.tmm.data.  Half floats stay the 2 bytes read; the floats of the  *)
(* main matrix are decoded to integers.                                    *)
(***************************************************************************)
\* struct.unpack("<f", b)[0] of an integer value
UnpackF32(b) ==
    IF b[1] = 0 /\ b[2] = 0 /\ b[3] = 0 /\ b[4] % 128 = 0 THEN 0
    ELSE LET e == (b[4] % 128) * 2 + (b[3] \div 128) - 127
             m == 8388608 + (b[3] % 128) * 65536 + b[2] * 256 + b[1]
             v == IF e < 0 THEN 0 ELSE IF e <= 23 THEN m \div (2 ^ (23 - e)) ELSE m
         IN  IF b[4] >= 128 THEN -v ELSE v

\* the 12 floats of a 4x3 matrix
Floats12(b) == [k \in 1..12 |-> UnpackF32(SubSeq(b, 4 * k - 3, 4 * k))]

\* determinant of Matrix(np.array(list(m) + [0, 0, 0, 1]).reshape(4, 4))
Det4x3(m) ==
    m[1] * (m[6] * m[11] - m[7] * m[10])
    - m[2] * (m[5] * m[11] - m[7] * m[9])
    + m[3] * (m[5] * m[10] - m[6] * m[9])

\* main_matrix.inverted() raises ValueError on a singular matrix
MainMatrixInverted(b) ==
    IF b.err # "" THEN b
    ELSE IF Det4x3(Floats12(b.val)) = 0 THEN Raise("ValueError", b.pos)
    ELSE Ok(b.pos, Floats12(b.val))

\* assert <u32 just read> == value, assert <u16 just read> == value
AssertL(s, value) == Check(s, UnpackL(s.val) = value)

AssertH(s, value) == Check(s, UnpackH(s.val) = value)

\* assert on the k-th field read so far, a u32
FieldIn(s, k, values) == Check(s, UnpackL(s.val[k]) \in values)

\* one more name in the list of fields read so far
ReadName(f, s) == Appended(s.val, ReadString(f, s))

\* the part x of the file kept under its name beside the parts read before
With(s, name, x) == IF x.err # "" THEN x ELSE Ok(x.pos, s.val @@ (name :> x.val))

\* the three asserts of the header
ImportTMMHeader(f, s) ==
    AssertH(ReadStruct(f,
                AssertL(ReadStruct(f, AssertL(ReadStruct(f, s, 4), 1296913474), 4), 35),
                2),
            20548)

\* the names of the import block are decoded, the 16 bytes after them dropped
RECURSIVE ImportCrap(_, _, _)
ImportCrap(f, s, num_import_crap) ==
    IF s.err # "" \/ num_import_crap = 0 THEN s
    ELSE ImportCrap(f, SkipRead(f, ReadString(f, s), 16), num_import_crap - 1)

ImportCrapBlock(f, n) == ImportCrap(f, n, IF n.err # "" THEN 0 ELSE UnpackL(n.val))

\* assert (num_triangles * 3 == num_triangle_verts); val is the list of counts
CountsOf(all8) ==
    Return(Check(all8, UnpackL(all8.val[8]) % 3 = 0), [k \in 1..8 |-> UnpackL(all8.val[k])])

\* the 8 counts, with assert num_unknown2 == 0 after the fifth
ImportCounts(f, s) ==
    CountsOf(ReadFields(f,
                 FieldIn(ReadFields(f, Return(s, << >>), << 4, 4, 4, 4, 4 >>), 5, {0}),
                 << 4, 4, 4 >>))

TableOf(table) == Return(table, [k \in 1..14 |-> UnpackL(table.val[k])])

\* the block table as the script reads it: vertices, triangles, weights,
\* unknown1, unknown2, heights, unknown3; the unknown starts must be 0
ImportBlockTable(f, s) ==
    TableOf(
        ReadFields(f,
            FieldIn(
                ReadFields(f,
                    FieldIn(
                        ReadFields(f,
                            FieldIn(ReadFields(f, Return(s, << >>),
                                               << 4, 4, 4, 4, 4, 4, 4 >>), 7, {0}),
                            << 4, 4 >>),
                        9, {0}),
                    << 4, 4, 4, 4 >>),
                13, {0}),
            << 4 >>))

BoolsOK(unknown_bools) == Check(unknown_bools, unknown_bools.val = << 0, 1 >>)

\* unknown_bools == (0, 1)
ImportBools(f, s) == BoolsOK(ReadStruct(f, s, 2))

\* the fields of an attachment: unknown_int, parent_bone_id, name, the two
\* matrices, unknown_zero1, unknown_zero2, second_name, unknown_ints
AttachmentOf(a) ==
    Return(Check(a, a.val[9] = PackSL(-1) \o PackSL(0) \o PackSL(0) \o PackSL(0)),
           << a.val[3], UnpackSL(a.val[2]) >>)

\* one attachment with its asserts; val is (name, parent_bone_id)
ImportAttachment(f, s) ==
    AttachmentOf(
        ReadFields(f,
            ReadName(f,
                FieldIn(
                    ReadFields(f,
                        FieldIn(
                            ReadFields(f,
                                ReadName(f,
                                    ReadFields(f,
                                        FieldIn(ReadFields(f, Return(s, << >>), << 4 >>),
                                                1, {0}),
                                        << 4 >>)),
                                << 48, 48, 4 >>),
                            6, {0, 2}),
                        << 4 >>),
                    7, {0})),
            << 16 >>))

RECURSIVE ImportAttachments(_, _, _)
ImportAttachments(f, s, num_attachments) ==
    IF s.err # "" \/ num_attachments = 0 THEN s
    ELSE ImportAttachments(f, Appended(s.val, ImportAttachment(f, s)), num_attachments - 1)

\* mesh_group_list.append((num_verts, num_tris, mat_index)) with
\* num_tris = int(num_tri_verts / 3)
MeshGroupTuple(b) ==
    Return(b, << UnpackL(b.val[3]), UnpackL(b.val[4]) \div 3, UnpackL(b.val[5]) >>)

RECURSIVE ImportMeshGroups(_, _, _)
ImportMeshGroups(f, s, num_mesh_groups) ==
    IF s.err # "" \/ num_mesh_groups = 0 THEN s
    ELSE ImportMeshGroups(f,
             Appended(s.val,
                      MeshGroupTuple(ReadFields(f, Return(s, << >>), << 4, 4, 4, 4, 4, 4 >>))),
             num_mesh_groups - 1)

\* materials and shader techniques
RECURSIVE ImportNames(_, _, _)
ImportNames(f, s, n) ==
    IF s.err # "" \/ n = 0 THEN s
    ELSE ImportNames(f, Appended(s.val, ReadString(f, s)), n - 1)

\* the fields of a bone: name, parent id, 12 + 4 bytes, three matrices
BoneOf(b) ==
    Return(b, [name |-> b.val[1],
               parent_index |-> UnpackSL(b.val[2]),
               world_space_matrix |-> b.val[6]])

\* bone_list.append((bone_name, bone_parent_id, world_space_matrix, radius))
ImportTMMBone(f, s) ==
    BoneOf(ReadFields(f, ReadName(f, Return(s, << >>)), << 4, 12, 4, 64, 64, 64 >>))

RECURSIVE ImportTMMBones(_, _, _)
ImportTMMBones(f, s, num_bones) ==
    IF s.err # "" \/ num_bones = 0 THEN s
    ELSE ImportTMMBones(f, Appended(s.val, ImportTMMBone(f, s)), num_bones - 1)

\* the bones of the armature after the first i entries of bone_list
EditBones(bone_list, i) == {bone_list[k].name : k \in 1..i}

\* setup_armature: armature.edit_bones[parent_index] raises IndexError past
\* the bones made so far
setup_armature(s, bone_list) ==
    IF s.err # "" THEN s
    ELSE IF \E i \in 1..Len(bone_list) :
                bone_list[i].parent_index >= Cardinality(EditBones(bone_list, i))
    THEN Raise("IndexError", s.pos)
    ELSE Ok(s.pos, bone_list # << >>)

\* one of the 8 counts of the file read so far
CountOf(s, k) == IF s.err # "" THEN 0 ELSE s.val.counts[k]

HeadOf(counts) == Return(counts, [counts |-> counts.val])

\* header, import block, bounding boxes, unknown float and counts
ImportHead(f) ==
    HeadOf(ImportCounts(f,
               ReadStruct(f, ReadStruct(f, ReadStruct(f,
                   ImportCrapBlock(f,
                       ReadStruct(f, SkipRead(f, ImportTMMHeader(f, Opened), 4), 4)),
                   24), 24), 4)))

\* block table, unknown_bools, main_matrix and main_matrix.inverted()
ImportMainMatrix(f, s) ==
    With(s, "main_matrix",
         MainMatrixInverted(ReadStruct(f, ImportBools(f, ImportBlockTable(f, s)), 48)))

ImportAttachmentList(f, s) ==
    With(s, "attachments", ImportAttachments(f, Return(s, << >>), CountOf(s, 6)))

ImportGroupList(f, s) ==
    With(s, "mesh_group_list", ImportMeshGroups(f, Return(s, << >>), CountOf(s, 1)))

ImportMaterialList(f, s) ==
    With(s, "material_list", ImportNames(f, Return(s, << >>), CountOf(s, 2)))

ImportDefaultList(f, s) ==
    With(s, "defaults", ImportNames(f, Return(s, << >>), CountOf(s, 3)))

ImportBoneList(f, s) ==
    With(s, "bone_list", ImportTMMBones(f, Return(s, << >>), CountOf(s, 4)))

\* everything read from output.tmm
ImportTMMFile(f) ==
    ImportBoneList(f,
        ImportDefaultList(f,
            ImportMaterialList(f,
                ImportGroupList(f,
                    ImportAttachmentList(f, ImportMainMatrix(f, ImportHead(f)))))))

\* n_raw = tmm_data_file.read(2); n_raw[1] raises IndexError on a short read
ReadRaw(df, s) ==
    IF s.err # "" THEN s
    ELSE IF Len(Take(df, s.pos, 2)) = 2 THEN Ok(s.pos + 2, NormalRaw(Take(df, s.pos, 2)))
    ELSE Raise("IndexError", s.pos + Len(Take(df, s.pos, 2)))

\* vertex_list.append((x, z, y)), uv_list.append((u, 1 - v)), the raw normal
VertexRead(co, n_raw) ==
    IF n_raw.err # "" THEN n_raw
    ELSE Ok(n_raw.pos, [co |-> << SubSeq(co.val, 1, 2), SubSeq(co.val, 5, 6),
                                  SubSeq(co.val, 3, 4) >>,
                        u |-> SubSeq(co.val, 7, 8),
                        one_minus_v |-> SubSeq(co.val, 9, 10)])

ImportVertex(df, s) ==
    VertexRead(ReadStruct(df, s, 10),
               ReadRaw(df, ReadRaw(df, ReadRaw(df, ReadStruct(df, s, 10)))))

RECURSIVE ImportVertexRun(_, _, _)
ImportVertexRun(df, s, n) ==
    IF s.err # "" \/ n = 0 THEN s
    ELSE ImportVertexRun(df, Appended(s.val, ImportVertex(df, s)), n - 1)

\* for i, mesh_group in enumerate(mesh_group_list): for j in range(mesh_group[0])
RECURSIVE ImportVertices(_, _, _)
ImportVertices(df, s, mesh_group_list) ==
    IF s.err # "" \/ mesh_group_list = << >> THEN s
    ELSE ImportVertices(df, ImportVertexRun(df, s, Head(mesh_group_list)[1]),
                        Tail(mesh_group_list))

\* the stored (a, b, c) with the offset added and nothing swapped
UnswappedTriangle(b, vert_index_offset) ==
    Return(b, << UnpackH(SubSeq(b.val, 1, 2)) + vert_index_offset,
                 UnpackH(SubSeq(b.val, 3, 4)) + vert_index_offset,
                 UnpackH(SubSeq(b.val, 5, 6)) + vert_index_offset >>)

\* the stored (a, b, c) with the offset added, then the 2nd and 3rd swapped
OffsetTriangle(b, vert_index_offset) ==
    Return(b, << UnpackH(SubSeq(b.val, 1, 2)) + vert_index_offset,
                 UnpackH(SubSeq(b.val, 5, 6)) + vert_index_offset,
                 UnpackH(SubSeq(b.val, 3, 4)) + vert_index_offset >>)

RECURSIVE ImportTriangleRun(_, _, _, _)
ImportTriangleRun(df, s, n, vert_index_offset) ==
    IF s.err # "" \/ n = 0 THEN s
    ELSE ImportTriangleRun(df,
             Appended(s.val, OffsetTriangle(ReadStruct(df, s, 6), vert_index_offset)),
             n - 1, vert_index_offset)

\* the triangles of all groups with one offset for all of them
RECURSIVE UnshiftedTriangles(_, _, _, _)
UnshiftedTriangles(df, s, mesh_group_list, vert_index_offset) ==
    IF s.err # "" \/ mesh_group_list = << >> THEN s
    ELSE UnshiftedTriangles(df,
             ImportTriangleRun(df, s, Head(mesh_group_list)[2], vert_index_offset),
             Tail(mesh_group_list), vert_index_offset)

\* vert_index_offset += mesh_group[0] after each group
RECURSIVE ImportTriangles(_, _, _, _)
ImportTriangles(df, s, mesh_group_list, vert_index_offset) ==
    IF s.err # "" \/ mesh_group_list = << >> THEN s
    ELSE ImportTriangles(df,
             ImportTriangleRun(df, s, Head(mesh_group_list)[2], vert_index_offset),
             Tail(mesh_group_list), vert_index_offset + Head(mesh_group_list)[1])

\* [(bone_id, weight) for ... if weight != 0] of one vertex
WeightedBones(b) ==
    Return(b, SelectSeq([k \in 1..4 |-> << b.val[4 + k], b.val[k] >>],
                        LAMBDA p : p[2] # 0))

\* read only with an armature
RECURSIVE ImportWeights(_, _, _)
ImportWeights(df, s, n) ==
    IF s.err # "" \/ n = 0 THEN s
    ELSE ImportWeights(df, Appended(s.val, WeightedBones(ReadStruct(df, s, 8))), n - 1)

\* armature_object.data.bones[bone_id] of the rigging raises IndexError
Rigged(s, num_armature_bones) ==
    IF s.err # "" THEN s
    ELSE IF \E v \in 1..Len(s.val) : \E k \in 1..Len(s.val[v]) :
                s.val[v][k][1] >= num_armature_bones
    THEN Raise("IndexError", s.pos)
    ELSE s

VertexListOf(vertex_list) == Return(vertex_list, [vertex_list |-> vertex_list.val])

ImportTriangleList(df, s, mesh_group_list) ==
    With(s, "triangle_list", ImportTriangles(df, Return(s, << >>), mesh_group_list, 0))

ImportWeightList(df, s, n, num_armature_bones) ==
    With(s, "weighted_bone_data",
         Rigged(ImportWeights(df, Return(s, << >>), n), num_armature_bones))

\* read_tmm_data: vertices, triangles and, with an armature, weights
read_tmm_data(df, num_vertices, mesh_group_list, bone_list, armature_object) ==
    ImportWeightList(df,
        ImportTriangleList(df, VertexListOf(ImportVertices(df, Opened, mesh_group_list)),
                           mesh_group_list),
        IF armature_object THEN num_vertices ELSE 0,
        Cardinality(EditBones(bone_list, Len(bone_list))))

\* the whole script: the .tmm file, the armature, the .tmm.data file
ImportedMesh(tmm, data) ==
    IF data.err # "" THEN data
    ELSE Ok(data.pos, [num_vertices |-> tmm.counts[7],
                       num_triangles |-> tmm.counts[8] \div 3,
                       main_matrix |-> tmm.main_matrix,
                       attachments |-> tmm.attachments,
                       mesh_group_list |-> tmm.mesh_group_list,
                       material_list |-> tmm.material_list,
                       bone_list |-> tmm.bone_list,
                       vertex_list |-> data.val.vertex_list,
                       triangle_list |-> data.val.triangle_list,
                       weighted_bone_data |-> data.val.weighted_bone_data])

ImportMesh(tmm, armature_obj, df) ==
    IF armature_obj.err # "" THEN armature_obj
    ELSE ImportedMesh(tmm.val,
                      read_tmm_data(df, tmm.val.counts[7], tmm.val.mesh_group_list,
                                    tmm.val.bone_list, armature_obj.val))

import_tmm_file(f, df) ==
    CHOOSE mesh_obj \in
        {ImportMesh(tmm,
                    setup_armature(tmm, IF tmm.err # "" THEN << >> ELSE tmm.val.bone_list),
                    df) : tmm \in {ImportTMMFile(f)}} : TRUE

(***************************************************************************)
(* Inputs                                                                  *)
(***************************************************************************)
MaxBones == 2

MaxFrames == 2

NoQuat == <<>>

QComponents == {-1000, -800, -600, -400, -200, 0, 200, 400, 600, 800, 1000}

\* the unit quaternions (w, x, y, z) on a grid of fifths
UnitQuats ==
    {q \in QComponents \X QComponents \X QComponents \X QComponents :
        q[1] * q[1] + q[2] * q[2] + q[3] * q[3] + q[4] * q[4] = QUnit * QUnit}

\* a matrix with 16 different entries
SampleMatrix(k) == [r \in 1..4 |-> [c \in 1..4 |-> 16 * k + 4 * (r - 1) + c]]

\* an affine matrix: 12 different entries over the row [0, 0, 0, 1]
SampleAffine(k) ==
    [r \in 1..4 |-> [c \in 1..4 |->
        IF r = 4 THEN (IF c = 4 THEN UnpackF(F32_ONE) ELSE 0)
        ELSE 16 * k + 4 * (r - 1) + c]]

\* the name of the i-th bone (0-based): "A", "B", ...
SampleName(i) == << 65 + i >>

SampleBone(i) ==
    [name |-> SampleName(i),
     parent_index |-> i - 1,
     parent_space_matrix |-> SampleMatrix(3 * i),
     world_space_matrix |-> SampleMatrix(3 * i + 1),
     inverse_bind_matrix |-> SampleMatrix(3 * i + 2)]

SampleRotation(f) ==
    IF f % 3 = 1 THEN << 600, 800, 0, 0 >>
    ELSE IF f % 3 = 2 THEN << 0, 600, 0, 800 >>
    ELSE << 600, 0, -800, 0 >>

\* a track of n frames; a static position track repeats one position
SampleTrack(i, position_mode, n) ==
    [bone_name |-> SampleName(i),
     position_mode |-> position_mode,
     rotation_mode |-> 3,
     translations |-> [f \in 1..n |->
                         << IF position_mode = 0 THEN 1 ELSE f, 10 + i, 7 >>],
     rotations |-> [f \in 1..n |-> SampleRotation(f)]]

\* a well-formed TMAFile: nb bones in a chain, one track of fc frames per bone
SampleTMA(nb, fc, pmodes) ==
    [header |-> [magic |-> TMA_MAGIC, version |-> TMA_VERSION, dp |-> DP],
     active_bone_count |-> nb,
     frame_count |-> fc,
     animation_duration |-> 3,
     root_position |-> << 1, 2, 3 >>,
     bones |-> [i \in 1..nb |-> SampleBone(i - 1)],
     animations |-> [i \in 1..nb |-> SampleTrack(i - 1, pmodes[i], fc)],
     attachments |-> << >>]

WellFormedTMA ==
    {SampleTMA(nb, fc, pmodes) :
        nb \in 0..MaxBones, fc \in 0..MaxFrames, pmodes \in [1..MaxBones -> {0, 1}]}

BAD_MAGIC == 305419896         \* 0x12345678

\* a well-formed TMAFile with one field changed
DeviatedTMA ==
    UNION {
        {[d EXCEPT !.header.magic = m] : m \in {TMM_MAGIC, BAD_MAGIC}}
        \cup {[d EXCEPT !.header.version = v] : v \in {TMA_VERSION + 1, TMM_VERSION}}
        \cup {[d EXCEPT !.active_bone_count = n] :
                 n \in {Len(d.animations) + 1} \cup
                       (IF d.animations = <<>> THEN {} ELSE {Len(d.animations) - 1})}
        \cup UNION {{[d EXCEPT !.bones[i].parent_index = p] : p \in {-2, i - 1, i}} :
                        i \in 1..Len(d.bones)}
        \cup {[d EXCEPT !.bones[i].name = << 128512 >>] : i \in 1..Len(d.bones)}
        \cup {[d EXCEPT !.animations[i].rotation_mode = m] :
                 i \in 1..Len(d.animations), m \in {0, 1}}
        \cup {[d EXCEPT !.animations[i].position_mode = 2] :
                 i \in 1..Len(d.animations)}
        \cup {[d EXCEPT !.animations[i] =
                   SampleTrack(i - 1, d.animations[i].position_mode, n)] :
                 i \in 1..Len(d.animations),
                 n \in {d.frame_count + 1} \cup
                       (IF d.frame_count = 0 THEN {} ELSE {d.frame_count - 1})}
        \cup {[d EXCEPT !.attachments = << [name |-> SampleName(0)] >>]}
        : d \in WellFormedTMA}

TMADocs == WellFormedTMA \cup DeviatedTMA

\* a .tma file as the game ships it, laid out as the import script reads it:
\* the tracks of d with the rotation modes rmodes (0 static, 3 keyed), then
\* the attachment count and the closing zero
GameRotations(track, rotation_mode) ==
    IF rotation_mode = 0
    THEN PackF(1) \o PackF(2) \o PackF(3) \o PackF(4)
    ELSE PackL(Len(track.rotations) * 8)
         \o Concat([k \in 1..Len(track.rotations) |->
                      PackQ(ExportCompressQuaternion(track.rotations[k]))])

GameTrack(track, rotation_mode) ==
    WriteName(track.bone_name)
    \o PackB(1) \o PackB(track.position_mode) \o PackB(rotation_mode) \o PackB(0)
    \o PackL(Len(track.translations))
    \o TMAWriter_write_translations(
           IF track.translations = << >> THEN << << 0, 0, 0 >> >> ELSE track.translations,
           IF track.translations = << >> THEN 0 ELSE track.position_mode).out
    \o GameRotations(track, rotation_mode)
    \o F32_ONE \o F32_ONE \o F32_ONE \o F32_ONE

GameTMA(d, rmodes) ==
    TMAWriter_write_header(d.header)
    \o TMAWriter_write_import_block
    \o PackL(d.active_bone_count) \o PackL(d.frame_count)
    \o PackF(d.animation_duration)
    \o PackVec3(d.root_position) \o PackVec3(d.root_position)
    \o PackL(Len(d.bones)) \o PackL(0)
    \o TMAWriter_write_bones(d.bones)
    \o Concat([i \in 1..Len(d.animations) |-> GameTrack(d.animations[i], rmodes[i])])
    \o PackL(0) \o PackL(0)

\* the selected armature with its action: nb bones in a chain, nf frames,
\* the rotations taken from SampleRotation at offset r
SampleArmature(nb, nf, r) ==
    [bones |-> [i \in 1..nb |->
                  [name |-> SampleName(i - 1),
                   parent_index |-> i - 2,
                   head |-> << i, 0, 1 >>,
                   parent_space_mat |-> SampleMatrix(3 * i),
                   world_space_mat |-> SampleMatrix(3 * i + 1),
                   inverse_bind_mat |-> SampleMatrix(3 * i + 2)]],
     frame_count |-> nf,
     fps |-> 1,
     pose |-> [i \in 1..nb |-> [f \in 1..nf |->
                 [location |-> << i, f, 1 >>, rotation |-> SampleRotation(i + f + r)]]]]

Armatures ==
    {SampleArmature(nb, nf, r) : nb \in 0..MaxBones, nf \in 1..MaxFrames, r \in 0..2}

MaxGroups == 2

MaxTris == 2

SampleBBox(k) ==
    [min_x |-> k, min_y |-> k + 1, min_z |-> k + 2,
     max_x |-> k + 3, max_y |-> k + 4, max_z |-> k + 5]

SampleTMMBone(i) ==
    [name |-> SampleName(i),
     parent_id |-> i - 1,
     quaternion |-> << 4, 5, 6 >>,
     radius |-> 9,
     parent_space_matrix |-> SampleMatrix(3 * i),
     world_space_matrix |-> SampleMatrix(3 * i + 1),
     inverse_bind_matrix |-> SampleMatrix(3 * i + 2)]

SampleAttachment ==
    [name |-> << 72 >>,
     parent_bone_id |-> -1,
     transform_matrix1 |-> SampleAffine(20),
     transform_matrix2 |-> SampleAffine(21),
     unknown_zero1 |-> 0,
     unknown_zero2 |-> 0,
     second_name |-> << >>,
     unknown_ints |-> << -1, 0, 0, 0 >>]

\* a group of t triangles is a fan over t + 2 vertices of its own
GroupVerts(t) == t + 2

\* the k-th mesh group as _process_mesh_data lays it out: ts are the triangle
\* counts of the groups
SampleGroup(ts, k) ==
    [verts_start |-> SumSeq([j \in 1..(k - 1) |-> GroupVerts(ts[j])]),
     tris_start |-> SumSeq([j \in 1..(k - 1) |-> ts[j]]) * 3,
     num_verts |-> GroupVerts(ts[k]),
     num_tri_verts |-> ts[k] * 3,
     num_tris |-> ts[k],
     mat_index |-> k - 1,
     default_index |-> 0]

SampleVertex(i) ==
    [position |-> << i, 2 * i, 3 >>, uv |-> << i, 1 >>, weights |-> << >>]

SampleTriangles(t) == [j \in 1..t |-> [vertices |-> << 0, j, j + 1 >>]]

\* a well-formed TMMFile: one group per entry of ts, nb bones, na attachments
SampleTMM(ts, nb, na) ==
    [header |-> [magic |-> TMM_MAGIC, version |-> TMM_VERSION, dp |-> DP],
     bounding_box |-> SampleBBox(1),
     bigger_bounding_box |-> SampleBBox(11),
     unknown_float |-> 5,
     mesh_groups |-> [k \in 1..Len(ts) |-> SampleGroup(ts, k)],
     materials |-> [k \in 1..Len(ts) |-> << 77, 48 + k >>],
     defaults |-> << << 68 >> >>,
     bones |-> [i \in 1..nb |-> SampleTMMBone(i - 1)],
     attachments |-> [i \in 1..na |-> SampleAttachment],
     vertices |-> [i \in 1..SumSeq([k \in 1..Len(ts) |-> GroupVerts(ts[k])]) |->
                     SampleVertex(i)],
     triangles |-> Concat([k \in 1..Len(ts) |-> SampleTriangles(ts[k])]),
     main_matrix |-> SampleAffine(30)]

GroupShapes == UNION {[1..ng -> 1..MaxTris] : ng \in 0..MaxGroups}

WellFormedTMM ==
    {SampleTMM(ts, nb, na) : ts \in GroupShapes, nb \in 0..MaxBones, na \in 0..1}

\* a well-formed TMMFile with one field changed
DeviatedTMM ==
    UNION {
        {[d EXCEPT !.header.magic = m] : m \in {TMA_MAGIC, BAD_MAGIC}}
        \cup {[d EXCEPT !.header.version = v] : v \in {TMM_VERSION + 1, TMA_VERSION}}
        \cup UNION {{[d EXCEPT !.bones[i].parent_id = p] : p \in {-2, i - 1, i}} :
                        i \in 1..Len(d.bones)}
        \cup {[d EXCEPT !.mesh_groups[k].num_verts = @ + 1] : k \in 1..Len(d.mesh_groups)}
        \cup {[d EXCEPT !.mesh_groups[k].num_tri_verts = @ + 1] :
                 k \in 1..Len(d.mesh_groups)}
        : d \in WellFormedTMM}

TMMDocs == WellFormedTMM \cup DeviatedTMM

MaxPolys == 3

MaxVertexGroups == 5

\* the vertex groups of a vertex, as (group, weight) with weight in 1 / WUnit
\*   1: one group of weight 1         2: two groups of weight 1/2
\*   3: every group, mixed weights    4: one group of weight 0
VertexGroupsOf(wp) ==
    IF wp = 1 THEN << [group |-> 0, weight |-> WUnit] >>
    ELSE IF wp = 2 THEN << [group |-> 0, weight |-> WUnit \div 2],
                           [group |-> 1, weight |-> WUnit \div 2] >>
    ELSE IF wp = 3 THEN [k \in 1..MaxVertexGroups |->
                            [group |-> k - 1, weight |-> ((3 * k) % WUnit) + 1]]
    ELSE << [group |-> 0, weight |-> 0] >>

\* a fan: polygon j (1-based) joins vertices 0, j, j + 1; ps[j] is its
\* material_index; the uv layer has a seam and the normals a sharp edge
\* after the first polygon
SampleNormal(k) ==
    IF k % 3 = 0 THEN << 0, 0, 1 >> ELSE IF k % 3 = 1 THEN << 1, 0, 0 >> ELSE << 0, 1, 0 >>

SampleLoop(j, v) ==
    [vertex_index |-> v, uv |-> << v % 2, j \div 2 >>, normal |-> SampleNormal(j \div 2)]

SampleMesh(ps, wp) ==
    [vertices |-> [i \in 1..(IF ps = <<>> THEN 0 ELSE Len(ps) + 2) |->
                     [co |-> << i - 1, i, 2 >>,
                      groups |-> IF i = 1 THEN VertexGroupsOf(1) ELSE VertexGroupsOf(wp)]],
     polygons |-> [j \in 1..Len(ps) |->
                     [material_index |-> ps[j],
                      loops |-> << SampleLoop(j, 0), SampleLoop(j, j), SampleLoop(j, j + 1) >>]]]

\* armature_object.matrix_basis @ zup_to_yup: scaled axes with y and z
\* swapped and a translation
SampleBasis ==
    << << 2, 0, 0, 5 >>, << 0, 0, 3, 6 >>, << 0, 4, 0, 7 >>, << 0, 0, 0, 1 >> >>

SceneBone(i) ==
    [name |-> SampleName(i),
     parent_index |-> i - 1,
     head_radius |-> 1,
     parent_space_mat |-> SampleMatrix(3 * i),
     world_space_mat |-> SampleMatrix(3 * i + 1),
     inverse_bind_mat |-> SampleMatrix(3 * i + 2)]

\* the material slots reach up to the largest material_index in use
NumSlots(ps) ==
    IF ps = <<>> THEN 0
    ELSE 1 + CHOOSE m \in 0..MaxGroups :
                 /\ \E j \in 1..Len(ps) : ps[j] = m
                 /\ \A j \in 1..Len(ps) : ps[j] <= m

\* the active object: nb = -1 without an armature modifier
SampleScene(ps, nb, na, wp) ==
    [armature |-> nb >= 0,
     bound_box_min |-> << -1, -2, 0 >>,
     bound_box_max |-> << 1, 2, 4 >>,
     main_matrix |-> SampleBasis,
     bones |-> [i \in 1..nb |-> SceneBone(i - 1)],
     attachments |-> [i \in 1..na |->
                        [name |-> << 72, 46, 48, 48, 49 >>, parent_id |-> -1,
                         matrix_local |-> SampleMatrix(20),
                         matrix_world |-> SampleMatrix(21)]],
     materials |-> [k \in 1..NumSlots(ps) |-> << 77, 48 + k >>],
     vertex_groups |-> [k \in 1..MaxVertexGroups |-> SampleName(k - 1)],
     me |-> SampleMesh(ps, wp)]

PolyMaterials == UNION {[1..n -> 0..(MaxGroups - 1)] : n \in 0..MaxPolys}

\* attachments are the children of the armature; the vertex groups matter
\* only when a bone carries their name
Scenes ==
    {SampleScene(ps, -1, 0, 1) : ps \in PolyMaterials}
    \cup {SampleScene(ps, 0, na, 1) : ps \in PolyMaterials, na \in 0..1}
    \cup {SampleScene(ps, nb, na, wp) :
            ps \in PolyMaterials, nb \in (1..MaxBones) \cup {MaxVertexGroups},
            na \in 0..1, wp \in 1..4}

\* what the output path holds before an encoder runs
OldFile == << 79, 76, 68 >>

NoResult == [err |-> "none", pos |-> 0, val |-> << >>]

(***************************************************************************)
(* Actions                                                                 *)
(***************************************************************************)
Init ==
    /\ phase = "start"
    /\ quat = NoQuat
    /\ compressed = <<>>
    /\ decompressed = NoQuat
    /\ tma_data = <<>>
    /\ tmm_data = <<>>
    /\ mesh = <<>>
    /\ file = OldFile
    /\ data_file = OldFile
    /\ writer = "none"
    /\ written = "none"
    /\ reader = "none"
    /\ result = NoResult

CompressQuaternion ==
    /\ phase = "start"
    /\ \E q \in UnitQuats :
        /\ quat' = q
        /\ compressed' = TMAWriter_compress_quaternion(q)
    /\ phase' = "compressed"
    /\ UNCHANGED <<decompressed, tma_data, tmm_data, mesh, file, data_file,
                   writer, written, reader, result>>

DecompressQuaternion ==
    /\ phase = "compressed"
    /\ decompressed' = TMAReader_decompress_quaternion(compressed)
    /\ phase' = "decompressed"
    /\ UNCHANGED <<quat, compressed, tma_data, tmm_data, mesh, file, data_file,
                   writer, written, reader, result>>

\* TMAWriter(filepath).write(tma_data): open(filepath, "wb") truncates the
\* file, then _write_file writes until it returns or raises
WriteTMA ==
    /\ phase = "start"
    /\ \E d \in TMADocs :
        /\ tma_data' = d
        /\ LET w == TMAWriter_write_file(d)
           IN  /\ file' = w.out
               /\ written' = IF w.err = "" THEN "ok" ELSE w.err
    /\ writer' = "TMAWriter"
    /\ phase' = "written"
    /\ UNCHANGED <<quat, compressed, decompressed, tmm_data, mesh, data_file,
                   reader, result>>

\* the file is cut short before it is read: a proper prefix of a stream
\* that TMAWriter wrote completely from a well-formed TMAFile
TruncateFile ==
    /\ phase = "written"
    /\ writer = "TMAWriter"
    /\ written = "ok"
    /\ tma_data \in WellFormedTMA
    /\ \E n \in 0..(Len(file) - 1) : file' = SubSeq(file, 1, n)
    /\ phase' = "truncated"
    /\ UNCHANGED <<quat, compressed, decompressed, tma_data, tmm_data, mesh,
                   data_file, writer, written, reader, result>>

\* TMAReader(filepath).read()
ReadTMA ==
    /\ phase \in {"written", "truncated"}
    /\ result' = TMAReader_parse_file(file)
    /\ reader' = "TMAReader"
    /\ phase' = "read"
    /\ UNCHANGED <<quat, compressed, decompressed, tma_data, tmm_data, mesh,
                   file, data_file, writer, written>>

\* TMMWriter(filepath).write(tmm_data)
WriteTMM ==
    /\ phase = "start"
    /\ \E d \in TMMDocs :
        /\ tmm_data' = d
        /\ LET w == TMMWriter_write_file(d)
           IN  /\ file' = w.out
               /\ written' = IF w.err = "" THEN "ok" ELSE w.err
    /\ writer' = "TMMWriter"
    /\ phase' = "written"
    /\ UNCHANGED <<quat, compressed, decompressed, tma_data, mesh, data_file,
                   reader, result>>

\* TMMReader(filepath).read()
ReadTMM ==
    /\ phase = "written"
    /\ result' = TMMReader_parse_file(file)
    /\ reader' = "TMMReader"
    /\ phase' = "read"
    /\ UNCHANGED <<quat, compressed, decompressed, tma_data, tmm_data, mesh,
                   file, data_file, writer, written>>

\* a run of export_tma_file.py on the selected armature: output.tma
ExportTMA ==
    /\ phase = "start"
    /\ \E arm \in Armatures, lsize \in {4, 8} :
        /\ tma_data' = arm
        /\ file' = ExportTMAFile(arm, lsize).out
        /\ written' = IF ExportTMAFile(arm, lsize).err = "" THEN "ok"
                      ELSE ExportTMAFile(arm, lsize).err
    /\ writer' = "export_tma_file"
    /\ phase' = "written"
    /\ UNCHANGED <<quat, compressed, decompressed, tmm_data, mesh, data_file,
                   reader, result>>

\* a .tma file of the game is the file to import
ProvideTMA ==
    /\ phase = "start"
    /\ \E d \in WellFormedTMA, rmodes \in [1..MaxBones -> {0, 3}] :
        /\ tma_data' = [d EXCEPT !.animations =
                           [i \in 1..Len(d.animations) |->
                               [d.animations[i] EXCEPT !.rotation_mode = rmodes[i]]]]
        /\ file' = GameTMA(d, rmodes)
    /\ writer' = "game"
    /\ written' = "ok"
    /\ phase' = "written"
    /\ UNCHANGED <<quat, compressed, decompressed, tmm_data, mesh, data_file,
                   reader, result>>

\* a run of import_tma_file.py with no armature selected
ImportTMA ==
    /\ phase \in {"written", "truncated"}
    /\ result' = ImportTMAFile(file)
    /\ reader' = "import_tma_file"
    /\ phase' = "read"
    /\ UNCHANGED <<quat, compressed, decompressed, tma_data, tmm_data, mesh,
                   file, data_file, writer, written>>

\* a run of the mesh import script on the .tmm file and its .tmm.data file
ImportTMM ==
    /\ phase = "written"
    /\ result' = import_tmm_file(file, data_file)
    /\ reader' = "import_tmm_file"
    /\ phase' = "read"
    /\ UNCHANGED <<quat, compressed, decompressed, tma_data, tmm_data, mesh,
                   file, data_file, writer, written>>

\* a run of the export script: output.tmm, then output.tmm.data
ExportTMM ==
    /\ phase = "start"
    /\ \E ob \in Scenes, lsize \in {4, 8} :
        LET scene == ob @@ [mesh_groups |-> export_mesh_groups(ob)]
        IN  /\ mesh' = scene
            /\ file' = ExportTMMFile(scene, lsize)
            /\ data_file' = ExportDataFile(scene)
    /\ writer' = "export_tmm_file"
    /\ written' = "ok"
    /\ phase' = "written"
    /\ UNCHANGED <<quat, compressed, decompressed, tma_data, tmm_data, reader, result>>

\* TMMManager.create_from_blender_mesh(mesh_object, output_path): builds the
\* TMMFile and writes it with TMMWriter
CreateFromBlenderMesh ==
    /\ phase = "start"
    /\ \E ob \in Scenes :
        /\ mesh' = ob
        /\ tmm_data' = TMMManager_create_from_blender_mesh(ob)
        /\ LET w == TMMWriter_write_file(TMMManager_create_from_blender_mesh(ob))
           IN  /\ file' = w.out
               /\ written' = IF w.err = "" THEN "ok" ELSE w.err
    /\ writer' = "TMMManager"
    /\ phase' = "written"
    /\ UNCHANGED <<quat, compressed, decompressed, tma_data, data_file,
                   reader, result>>

Next ==
    \/ CompressQuaternion
    \/ DecompressQuaternion
    \/ WriteTMA
    \/ ReadTMA
    \/ WriteTMM
    \/ ReadTMM
    \/ ExportTMM
    \/ CreateFromBlenderMesh
    \/ ExportTMA
    \/ ProvideTMA
    \/ ImportTMA
    \/ ImportTMM

Spec == Init /\ [][Next]_vars

\* the same program with files that may be cut short between write and read
NextTrunc == Next \/ TruncateFile

SpecTrunc == Init /\ [][NextTrunc]_vars

(***************************************************************************)
(* One packed direction field of the mesh data file, read on its own: any  *)
(* high byte, and the low bytes of FieldLowBytes.                          *)
(***************************************************************************)
FieldLowBytes == {0, 1, 127, 128, 254, 255}

InitField ==
    /\ phase = "written"
    /\ quat = NoQuat
    /\ compressed = <<>>
    /\ decompressed = NoQuat
    /\ tma_data = <<>>
    /\ tmm_data = <<>>
    /\ mesh = <<>>
    /\ file = <<>>
    /\ data_file \in {<< lo, hi >> : lo \in FieldLowBytes, hi \in 0..255}
    /\ writer = "none"
    /\ written = "game"
    /\ reader = "none"
    /\ result = NoResult

\* n_raw = tmm_data_file.read(2), the conditional inversion, and
\* oct_decode(norm_a, norm_b) * (1 if norm_c == 0 else -1)
ReadNormal ==
    /\ phase = "written"
    /\ written = "game"
    /\ Len(data_file) = 2
    /\ result' = Return(ReadRaw(data_file, Ok(0, << >>)),
                        [n_raw |-> ReadRaw(data_file, Ok(0, << >>)).val,
                         norm |-> DecodedNormal(data_file)])
    /\ reader' = "read_tmm_data"
    /\ phase' = "read"
    /\ UNCHANGED <<quat, compressed, decompressed, tma_data, tmm_data, mesh,
                   file, data_file, writer, written>>

NextField == ReadNormal

SpecField == InitField /\ [][NextField]_vars

(***************************************************************************)
(* Properties                                                              *)
(***************************************************************************)
\* q and r agree component-wise within 2 fixed-point units (2/QUnit), the
\* rounding error of the fixed-point model
QuatClose(q, r) == \A k \in 1..4 : Abs(q[k] - r[k]) <= 2

Negated(q) == [k \in 1..4 |-> -q[k]]

\* C1: quaternion round trip.  For every unit quaternion q,
\* _decompress_quaternion(_compress_quaternion(q)) equals q or -q
\* component-wise within the tolerance.
C1_QuaternionRoundTrip ==
    phase = "decompressed" =>
        QuatClose(decompressed, quat) \/ QuatClose(decompressed, Negated(quat))

\* the identity rotation (w = 1) has been compressed and decompressed
C1_IdentityDecoded ==
    phase = "decompressed" /\ quat = << 1000, 0, 0, 0 >>

(***************************************************************************)
(* Header validation                                                       *)
(***************************************************************************)
\* the first little-endian u32 of the file
FileMagic == UnpackL(SubSeq(file, 1, 4))

\* the second little-endian u32 of the file
FileVersion == UnpackL(SubSeq(file, 5, 8))

\* C2: header magic validation.  A stream whose first u32 is not the
\* documented magic (TMA_MAGIC for TMAReader, TMM_MAGIC for TMMReader) is
\* rejected with an error right after the 4 bytes of the magic, and no
\* document is returned.
C2_MagicValidation ==
    (phase = "read" /\ Len(file) >= 4) =>
        /\ (reader = "TMAReader" /\ FileMagic # TMA_MAGIC) =>
               (result.err = "AssertionError" /\ result.pos = 4 /\ result.val = << >>)
        /\ (reader = "TMMReader" /\ FileMagic # TMM_MAGIC) =>
               (result.err = "AssertionError" /\ result.pos = 4 /\ result.val = << >>)

\* a decoder has rejected a file that starts with the magic 0x12345678
C2_BadMagicRejected ==
    /\ phase = "read"
    /\ Len(file) >= 4
    /\ FileMagic = BAD_MAGIC
    /\ result.err = "AssertionError"

\* C9: version validation.  A stream with the right magic and a version
\* other than the documented one (12 for TMAReader, 35 for TMMReader) is
\* rejected and no document is returned.
C9_VersionValidation ==
    (phase = "read" /\ Len(file) >= 8) =>
        /\ (reader = "TMAReader" /\ FileMagic = TMA_MAGIC /\ FileVersion # TMA_VERSION) =>
               result.err # ""
        /\ (reader = "TMMReader" /\ FileMagic = TMM_MAGIC /\ FileVersion # TMM_VERSION) =>
               result.err # ""

\* TMAReader has returned a document for a stream of version 13
C9_Version13Decoded ==
    /\ phase = "read"
    /\ reader = "TMAReader"
    /\ Len(file) >= 8
    /\ FileVersion = TMA_VERSION + 1
    /\ result.err = ""

(***************************************************************************)
(* Frame counts                                                            *)
(***************************************************************************)
\* the tracks of d that TMAReader reads: the first active_bone_count ones
TracksRead(d) == 1..Min(d.active_bone_count, Len(d.animations))

\* the embedded frame count of track k is len(anim.translations)
Mismatched(d, k) == Len(d.animations[k].translations) # d.frame_count

\* the file position just after the frame count field of track k
FrameCountEnd(d, k) ==
    Len(TMAWriter_write_file([d EXCEPT !.animations = SubSeq(@, 1, k - 1)]).out)
    + 4 + Len(EncodeUTF16LE(d.animations[k].bone_name)) + 4 + 4

\* C3: frame-count consistency.  When a track's embedded frame count
\* differs from the global frame count, TMAReader fails at that track, right
\* after its frame count field, and returns no document.
C3_FrameCountConsistency ==
    (phase = "read" /\ reader = "TMAReader" /\ writer = "TMAWriter" /\ written = "ok") =>
        \A k \in TracksRead(tma_data) :
            (Mismatched(tma_data, k) /\ \A j \in 1..(k - 1) : ~Mismatched(tma_data, j)) =>
                /\ result.err = "AssertionError"
                /\ result.pos = FrameCountEnd(tma_data, k)
                /\ result.val = << >>

\* TMAReader has rejected a stream with a track of mismatched frame count
C3_MismatchRejected ==
    /\ phase = "read"
    /\ reader = "TMAReader"
    /\ writer = "TMAWriter"
    /\ written = "ok"
    /\ \E k \in TracksRead(tma_data) : Mismatched(tma_data, k)
    /\ result.err = "AssertionError"

(***************************************************************************)
(* Round trips                                                             *)
(***************************************************************************)
\* the boundaries and the material index of a mesh group
GroupKey(g) ==
    << g.verts_start, g.tris_start, g.num_verts, g.num_tri_verts, g.mat_index >>

\* C4: mesh document round trip.  A well-formed TMMFile with several mesh
\* groups, written by TMMWriter and read back by TMMReader, comes back with
\* the same group boundaries and material indices and with the same total
\* numbers of vertices and triangles.
C4_MeshRoundTrip ==
    (/\ phase = "read"
     /\ writer = "TMMWriter"
     /\ reader = "TMMReader"
     /\ tmm_data \in WellFormedTMM
     /\ Len(tmm_data.mesh_groups) >= 2) =>
        /\ result.err = ""
        /\ Len(result.val.mesh_groups) = Len(tmm_data.mesh_groups)
        /\ \A k \in 1..Len(tmm_data.mesh_groups) :
               GroupKey(result.val.mesh_groups[k]) = GroupKey(tmm_data.mesh_groups[k])
        /\ Len(result.val.vertices) = Len(tmm_data.vertices)
        /\ Len(result.val.triangles) = Len(tmm_data.triangles)

\* a document of two groups has been decoded with its groups intact
C4_GroupsDecoded ==
    /\ phase = "read"
    /\ writer = "TMMWriter"
    /\ reader = "TMMReader"
    /\ tmm_data \in WellFormedTMM
    /\ Len(tmm_data.mesh_groups) >= 2
    /\ result.err = ""
    /\ \A k \in 1..Len(tmm_data.mesh_groups) :
           GroupKey(result.val.mesh_groups[k]) = GroupKey(tmm_data.mesh_groups[k])

\* the header of d is the documented one
DocumentedTMAHeader(d) ==
    d.header = [magic |-> TMA_MAGIC, version |-> TMA_VERSION, dp |-> DP]

\* active_bone_count is the number of tracks and every track holds
\* frame_count translations and rotations
ConsistentTMA(d) ==
    /\ d.active_bone_count = Len(d.animations)
    /\ \A k \in 1..Len(d.animations) :
           /\ Len(d.animations[k].translations) = d.frame_count
           /\ Len(d.animations[k].rotations) = d.frame_count

\* what the round trip has to preserve of a bone and of a track
BoneKey(b) == << b.name, b.parent_index >>

TrackKey(a) == << a.bone_name, a.position_mode, a.rotation_mode, a.translations >>

\* C5: animation round trip.  For a consistent TMAFile, TMAWriter succeeds,
\* TMAReader succeeds on the bytes, stops exactly at their end and returns
\* the same counts, root position, bone names and parents, track names,
\* modes and per-frame translations.
C5_AnimationRoundTrip ==
    (/\ phase = "read"
     /\ writer = "TMAWriter"
     /\ reader = "TMAReader"
     /\ DocumentedTMAHeader(tma_data)
     /\ ConsistentTMA(tma_data)) =>
        /\ written = "ok"
        /\ result.err = ""
        /\ result.pos = Len(file)
        /\ result.val.active_bone_count = tma_data.active_bone_count
        /\ result.val.frame_count = tma_data.frame_count
        /\ result.val.root_position = tma_data.root_position
        /\ Len(result.val.bones) = Len(tma_data.bones)
        /\ \A i \in 1..Len(tma_data.bones) :
               BoneKey(result.val.bones[i]) = BoneKey(tma_data.bones[i])
        /\ Len(result.val.animations) = Len(tma_data.animations)
        /\ \A k \in 1..Len(tma_data.animations) :
               TrackKey(result.val.animations[k]) = TrackKey(tma_data.animations[k])

\* a consistent document with a track of rotation mode 0 has been through
\* TMAWriter and TMAReader
C5_StaticRotationTrack ==
    /\ phase = "read"
    /\ writer = "TMAWriter"
    /\ reader = "TMAReader"
    /\ DocumentedTMAHeader(tma_data)
    /\ ConsistentTMA(tma_data)
    /\ \E k \in 1..Len(tma_data.animations) : tma_data.animations[k].rotation_mode = 0

(***************************************************************************)
(* Bone hierarchy                                                          *)
(***************************************************************************)
\* every parent is -1 or an earlier position of the list (0-based)
ParentsOK(parents) ==
    \A i \in 1..Len(parents) :
        parents[i] = -1 \/ (parents[i] >= 0 /\ parents[i] < i - 1)

\* C6: bone hierarchy invariant.  In every document a decoder returns, each
\* bone's parent index is -1 or less than the bone's own position.
C6_BoneHierarchy ==
    (phase = "read" /\ result.err = "") =>
        /\ reader = "TMAReader" =>
               ParentsOK([i \in 1..Len(result.val.bones) |->
                             result.val.bones[i].parent_index])
        /\ reader = "TMMReader" =>
               ParentsOK([i \in 1..Len(result.val.bones) |->
                             result.val.bones[i].parent_id])

\* TMAReader has returned a document whose first bone is its own parent
C6_SelfParentDecoded ==
    /\ phase = "read"
    /\ reader = "TMAReader"
    /\ result.err = ""
    /\ result.val.bones # << >>
    /\ result.val.bones[1].parent_index = 0

(***************************************************************************)
(* Encode-side errors                                                      *)
(***************************************************************************)
\* a TMAFile the animation encoder cannot serialize consistently
UnserializableTMA(d) ==
    \/ d.active_bone_count # Len(d.animations)
    \/ \E k \in 1..Len(d.animations) :
           \/ Len(d.animations[k].translations) # d.frame_count
           \/ Len(d.animations[k].rotations) # d.frame_count
           \/ d.animations[k].rotation_mode # 3
           \/ d.animations[k].position_mode \notin {0, 1}

\* a TMMFile whose group vertex counts do not sum to its vertex array length
UnserializableTMM(d) ==
    SumSeq([k \in 1..Len(d.mesh_groups) |-> d.mesh_groups[k].num_verts]) # Len(d.vertices)

\* C7: encode-side errors are detected before any byte is written.  Given an
\* unserializable document the encoder fails and the output file is as it
\* was; and whenever an encoder fails the output file is as it was.
C7_EncodeErrorsBeforeWrite ==
    /\ (writer = "TMAWriter" /\ UnserializableTMA(tma_data)) =>
           (written # "ok" /\ file = OldFile)
    /\ (writer = "TMMWriter" /\ UnserializableTMM(tmm_data)) =>
           (written # "ok" /\ file = OldFile)
    /\ (writer \in {"TMAWriter", "TMMWriter"} /\ written # "ok") => file = OldFile

\* TMAWriter has raised on a track of rotation mode 0
C7_WriterRaised ==
    /\ phase = "written"
    /\ writer = "TMAWriter"
    /\ written = "NotImplementedError"
    /\ UnserializableTMA(tma_data)

(***************************************************************************)
(* Truncated input                                                         *)
(***************************************************************************)
\* the file is a proper prefix of what TMAWriter wrote from tma_data
ProperPrefix ==
    /\ writer = "TMAWriter"
    /\ written = "ok"
    /\ Len(file) < Len(TMAWriter_write_file(tma_data).out)

\* C8: truncated input is always rejected.  TMAReader fails on every proper
\* prefix of a valid animation stream and returns no document.
C8_TruncatedRejected ==
    (phase = "read" /\ reader = "TMAReader" /\ ProperPrefix) => result.err # ""

\* TMAReader has rejected a prefix that ends inside the fixed-width fields
C8_HeaderCutRejected ==
    /\ phase = "read"
    /\ reader = "TMAReader"
    /\ ProperPrefix
    /\ Len(file) = 20
    /\ result.err = "struct.error"

(***************************************************************************)
(* Block table of the exporter                                             *)
(***************************************************************************)
\* C10: the block table matches the data stream.  The vertices, triangles,
\* weights and heights entries of the table hold the offset and the length
\* of that sub-stream in the .tmm.data file, one after the other, the last
\* one ending inside the file, with and without an armature.
C10_BlockTableMatchesData ==
    (phase = "written" /\ writer = "export_tmm_file") =>
        LET table == ExportBlockTable(TotalVertices(mesh.mesh_groups),
                                      TotalTriangles(mesh.mesh_groups))
            v == Len(ExportVertices(mesh.mesh_groups))
            t == Len(ExportTriangles(mesh.mesh_groups))
            w == Len(ExportWeights(mesh))
            h == Len(ExportHeights(mesh.mesh_groups))
        IN  /\ << table[1], table[2] >> = << 0, v >>
            /\ << table[3], table[4] >> = << v, t >>
            /\ << table[5], table[6] >> = << v + t, w >>
            /\ << table[11], table[12] >> = << v + t + w, h >>
            /\ table[11] + table[12] <= Len(data_file)

\* a mesh without an armature has been exported
C10_ExportedWithoutArmature ==
    /\ phase = "written"
    /\ writer = "export_tmm_file"
    /\ ~mesh.armature
    /\ TotalVertices(mesh.mesh_groups) > 0

(***************************************************************************)
(* Mesh groups built from a Blender mesh                                   *)
(***************************************************************************)
\* the group records start at 0, follow one another without gap or overlap
\* and add up to the two totals
Partitions(groups, total_verts, total_tri_verts) ==
    /\ \A k \in 1..Len(groups) :
           /\ groups[k].verts_start =
                  SumSeq([j \in 1..(k - 1) |-> groups[j].num_verts])
           /\ groups[k].tris_start =
                  SumSeq([j \in 1..(k - 1) |-> groups[j].num_tri_verts])
    /\ SumSeq([k \in 1..Len(groups) |-> groups[k].num_verts]) = total_verts
    /\ SumSeq([k \in 1..Len(groups) |-> groups[k].num_tri_verts]) = total_tri_verts

\* the k-th of the 8 counts in the header of a .tmm file with 4-byte fields
HeaderCount(f, k) == UnpackL(SubSeq(f, 67 + 4 * k, 70 + 4 * k))

\* the fields of the group records in the bytes b, lsize bytes per field
WrittenGroups(b, lsize) ==
    [k \in 1..(Len(b) \div (6 * lsize)) |->
        [verts_start |-> UnpackL(SubSeq(b, 6 * lsize * (k - 1) + 1, 6 * lsize * (k - 1) + 4)),
         tris_start |-> UnpackL(SubSeq(b, 6 * lsize * (k - 1) + lsize + 1,
                                       6 * lsize * (k - 1) + lsize + 4)),
         num_verts |-> UnpackL(SubSeq(b, 6 * lsize * (k - 1) + 2 * lsize + 1,
                                      6 * lsize * (k - 1) + 2 * lsize + 4)),
         num_tri_verts |-> UnpackL(SubSeq(b, 6 * lsize * (k - 1) + 3 * lsize + 1,
                                          6 * lsize * (k - 1) + 3 * lsize + 4))]]

\* C11: the mesh groups partition the vertex and triangle arrays.  For the
\* groups that TMMManager._process_mesh_data builds and for the group records
\* that the export script writes, the first group starts at vertex 0 and
\* triangle vertex 0, every next group starts where the one before it ends,
\* and the num_verts and the num_tri_verts add up to the vertex count and the
\* triangle-vertex count written in the header.
C11_GroupsPartitionArrays ==
    /\ writer = "TMMManager" =>
           /\ Partitions(tmm_data.mesh_groups, Len(tmm_data.vertices),
                         Len(tmm_data.triangles) * 3)
           /\ Partitions(tmm_data.mesh_groups, HeaderCount(file, 7), HeaderCount(file, 8))
    /\ writer = "export_tmm_file" =>
           \A lsize \in {4, 8} :
               Partitions(WrittenGroups(ExportMeshGroups(mesh.mesh_groups, 0, 0, lsize), lsize),
                          TotalVertices(mesh.mesh_groups),
                          TotalTriangles(mesh.mesh_groups) * 3)
    /\ (phase = "read" /\ writer = "TMMManager" /\ result.err = "") =>
           Partitions(result.val.mesh_groups, HeaderCount(file, 7), HeaderCount(file, 8))

\* both builders have laid out two groups in the order the materials first
\* appear, the second one over vertices that two of its triangles share
C11_TwoGroupsBuilt ==
    /\ phase = "read"
    /\ writer = "TMMManager"
    /\ result.err = ""
    /\ Len(result.val.mesh_groups) = 2
    /\ result.val.mesh_groups[1].mat_index = 1
    /\ result.val.mesh_groups[2].verts_start = 3
    /\ result.val.mesh_groups[2].tris_start = 3
    /\ result.val.mesh_groups[2].num_verts = 4
    /\ result.val.mesh_groups[2].num_tri_verts = 6
    /\ Len(export_mesh_groups(mesh)) = 2
    /\ Len(export_mesh_groups(mesh)[2].verts) = 4

(***************************************************************************)
(* Bone weights of the vertices                                            *)
(***************************************************************************)
\* at most 4 (bone_index, weight) pairs, weights in 0..255 that sum to at
\* most 255
WeightsBounded(weights) ==
    /\ Len(weights) <= 4
    /\ \A k \in 1..Len(weights) : weights[k][2] \in 0..255
    /\ SumSeq([k \in 1..Len(weights) |-> weights[k][2]]) <= 255

\* C13: weight bounds.  Every vertex that the encoder side produces, in the
\* export script and in TMMManager._process_material_group, carries at most 4
\* (bone_index, weight) pairs, each weight an integer in 0..255, and the
\* weights of one vertex sum to at most 255.
C13_WeightBounds ==
    /\ writer = "export_tmm_file" =>
           \A k \in 1..Len(mesh.mesh_groups) :
               \A i \in 1..Len(mesh.mesh_groups[k].verts) :
                   WeightsBounded(mesh.mesh_groups[k].verts[i].weights)
    /\ writer = "TMMManager" =>
           \A i \in 1..Len(tmm_data.vertices) :
               WeightsBounded(tmm_data.vertices[i].weights)

\* the export script has produced a vertex from two vertex groups of weight
\* 1/2 each, both named after a bone
C13_TwoHalvesExported ==
    /\ writer = "export_tmm_file"
    /\ mesh.armature
    /\ \E i \in 1..Len(mesh.me.vertices) :
           /\ mesh.me.vertices[i].groups =
                  << [group |-> 0, weight |-> WUnit \div 2],
                     [group |-> 1, weight |-> WUnit \div 2] >>
           /\ BoneWeights(mesh, mesh.me.vertices[i]) = << << 0, WUnit \div 2 >>, << 1, WUnit \div 2 >> >>
    /\ \E k \in 1..Len(mesh.mesh_groups) :
           \E i \in 1..Len(mesh.mesh_groups[k].verts) :
               Len(mesh.mesh_groups[k].verts[i].weights) = 2

(***************************************************************************)
(* Keys per track                                                          *)
(***************************************************************************)
\* a track with frame_count translations and frame_count rotations, all the
\* same value when the mode is Static (0)
FullTrack(track, frame_count) ==
    /\ Len(track.translations) = frame_count
    /\ Len(track.rotations) = frame_count
    /\ track.position_mode = 0 =>
           \A k \in 1..frame_count : track.translations[k] = track.translations[1]
    /\ track.rotation_mode = 0 =>
           \A k \in 1..frame_count : track.rotations[k] = track.rotations[1]

\* C12: every track of a successfully decoded animation document has exactly
\* frame_count translations and frame_count rotations, whether it is Keyed
\* or has a Static position or a Static rotation, which decode to the one
\* stored value repeated frame_count times.  Holds for TMAReader and for the
\* import script.
C12_TracksHaveFrameCountKeys ==
    (phase = "read" /\ reader \in {"TMAReader", "import_tma_file"} /\ result.err = "") =>
        \A k \in 1..Len(result.val.animations) :
            FullTrack(result.val.animations[k], result.val.frame_count)

\* the import script has decoded a track of two frames with a Static
\* position and a Static rotation
C12_StaticTrackImported ==
    /\ phase = "read"
    /\ reader = "import_tma_file"
    /\ result.err = ""
    /\ result.val.frame_count = 2
    /\ \E k \in 1..Len(result.val.animations) :
           /\ result.val.animations[k].position_mode = 0
           /\ result.val.animations[k].rotation_mode = 0
           /\ Len(result.val.animations[k].rotations) = 2

(***************************************************************************)
(* Strings                                                                 *)
(***************************************************************************)
\* a string field b: the 4-byte count, then count UTF-16LE code units
CountMatchesBody(b) == UnpackL(SubSeq(b, 1, 4)) * 2 = Len(b) - 4

\* the first bone name of a .tma file of TMAWriter starts at byte 62
FirstNameCount(f) == UnpackL(SubSeq(f, 63, 66))

\* C14: string length prefix.  For every string the encoders write (bone
\* names, track bone names, material and technique names) the 4-byte count
\* equals the number of UTF-16LE code units that follow, also for characters
\* outside the Basic Multilingual Plane, so the decoder resumes at the next
\* field and returns the name.
C14_StringLengthPrefix ==
    /\ (writer = "TMAWriter" /\ written = "ok") =>
           /\ \A i \in 1..Len(tma_data.bones) :
                  CountMatchesBody(PackL(Len(tma_data.bones[i].name))
                                   \o EncodeUTF16LE(tma_data.bones[i].name))
           /\ tma_data.bones # << >> =>
                  FirstNameCount(file) * 2 = Len(EncodeUTF16LE(tma_data.bones[1].name))
    /\ (writer = "TMMWriter" /\ written = "ok") =>
           /\ \A i \in 1..Len(tmm_data.materials) :
                  CountMatchesBody(WriteName(tmm_data.materials[i]))
           /\ \A i \in 1..Len(tmm_data.bones) :
                  CountMatchesBody(WriteName(tmm_data.bones[i].name))
    /\ (phase = "read" /\ reader = "TMAReader" /\ writer = "TMAWriter"
        /\ written = "ok" /\ tma_data.bones # << >>) =>
           /\ result.err # "UnicodeDecodeError"
           /\ result.err = "" => result.val.bones[1].name = tma_data.bones[1].name

\* TMAWriter has written a bone name with a character outside the BMP
C14_NonBMPNameWritten ==
    /\ writer = "TMAWriter"
    /\ written = "ok"
    /\ tma_data.bones # << >>
    /\ tma_data.bones[1].name = << 128512 >>
    /\ FirstNameCount(file) = 1
    /\ Len(EncodeUTF16LE(tma_data.bones[1].name)) = 4

(***************************************************************************)
(* Size of a written animation file                                        *)
(***************************************************************************)
\* C15: written animation file size.  TMAWriter.write of any TMAFile, also
\* of one with empty bones, animations and attachments lists, produces a
\* file of more than 100 bytes.
C15_WrittenFileSize ==
    (writer = "TMAWriter" /\ written = "ok") => Len(file) > 100

\* TMAWriter has written the document of the test: one active bone in the
\* header and no bones, tracks or attachments
C15_EmptyDocumentWritten ==
    /\ writer = "TMAWriter"
    /\ written = "ok"
    /\ tma_data.active_bone_count = 1
    /\ tma_data.bones = << >>
    /\ tma_data.animations = << >>
    /\ tma_data.attachments = << >>
    /\ Len(file) = 62

(***************************************************************************)
(* Normals                                                                 *)
(***************************************************************************)
\* the normal field of the i-th vertex record of the data file
NormalField(f, i) == SubSeq(f, 16 * (i - 1) + 11, 16 * (i - 1) + 12)

\* within 1e-2 per component
NormalClose(n, v) == \A k \in 1..3 : Abs(n[k] - v[k] * QUnit) * 100 <= QUnit

\* C16: normal-packing round trip.  For every unit direction v, decoding the
\* 16-bit packed field that the encoder produces for v yields v within 1e-2
\* per component.
C16_NormalRoundTrip ==
    (writer = "export_tmm_file" /\ written = "ok") =>
        \A i \in 1..Len(AllVerts(mesh.mesh_groups)) :
            NormalClose(DecodedNormal(NormalField(data_file, i)),
                        AllVerts(mesh.mesh_groups)[i].normal)

\* a vertex with the normal (0, 0, 1) has been exported and its field
\* decodes to a vector along x
C16_UpwardNormalExported ==
    /\ writer = "export_tmm_file"
    /\ written = "ok"
    /\ AllVerts(mesh.mesh_groups) # << >>
    /\ AllVerts(mesh.mesh_groups)[1].normal = << 0, 0, 1 >>
    /\ NormalField(data_file, 1) = << 255, 31 >>
    /\ DecodedNormal(NormalField(data_file, 1))[1] >= 990
    /\ DecodedNormal(NormalField(data_file, 1))[3] <= 10

(***************************************************************************)
(* Packed quaternions                                                      *)
(***************************************************************************)
\* the components with the sign that makes the largest one positive
SignNormalized(components) ==
    IF components[MaxIndex(components) + 1] < 0
    THEN [k \in 1..4 |-> -components[k]]
    ELSE components

\* the 19 magnitude bits and the sign bit of a 20-bit chunk
MagnitudeBits(chunk) == chunk % 524288

SignBit(chunk) == (chunk \div 524288) % 2

\* C17: quaternion component order.  The encoder reorders the quaternion to
\* (w, z, y, x), drops the position m of the largest magnitude and keeps the
\* other three in that order; TMAWriter._compress_quaternion and the export
\* script pick the same m and the same retained triple for a quaternion.
C17_ComponentOrder ==
    phase \in {"compressed", "decompressed"} =>
        /\ compressed[4] = 3 - MaxIndex(Rearranged(quat))
        /\ \A k \in 1..3 :
               MagnitudeBits(compressed[k]) =
                   Magnitude(Abs(Remaining(Rearranged(quat), MaxIndex(Rearranged(quat)))[k]))
        /\ compressed[4] = ExportCompressQuaternion(quat)[4]
        /\ \A k \in 1..3 :
               MagnitudeBits(compressed[k]) =
                   MagnitudeBits(ExportCompressQuaternion(quat)[k])

\* TMAWriter has compressed a quaternion whose largest component is x
C17_LargestXCompressed ==
    /\ phase = "compressed"
    /\ quat = << 0, 1000, 0, 0 >>
    /\ compressed[4] = 2
    /\ ExportCompressQuaternion(quat)[4] = 0

\* the sign bit of chunk i says whether the retained component c, negated
\* when flip holds, is positive
SignBitTells(chunk, c, flip) ==
    c # 0 => (SignBit(chunk) = 1 <=> (IF flip THEN -c ELSE c) > 0)

\* C18: conditional sign flip on encode.  With m the index of the dropped
\* component, before it becomes the stored 3 - m, the retained component i is
\* negated exactly when i # 0 and m # 3, in TMAWriter._compress_quaternion
\* and in the export script.
C18_ConditionalSignFlip ==
    phase \in {"compressed", "decompressed"} =>
        /\ LET m == MaxIndex(quat)
           IN  \A i \in 0..2 :
                   SignBitTells(compressed[i + 1],
                                Remaining(SignNormalized(quat), m)[i + 1],
                                i # 0 /\ m # 3)
        /\ LET m == MaxIndex(Rearranged(quat))
           IN  \A i \in 0..2 :
                   SignBitTells(ExportCompressQuaternion(quat)[i + 1],
                                Remaining(SignNormalized(Rearranged(quat)), m)[i + 1],
                                i # 0 /\ m # 3)

\* a quaternion with the largest component w and a positive y has been
\* compressed: the export script stores y with sign bit 1, TMAWriter with 0
C18_LargestWCompressed ==
    /\ phase = "compressed"
    /\ quat = << 800, 0, 600, 0 >>
    /\ SignBit(compressed[2]) = 0
    /\ SignBit(ExportCompressQuaternion(quat)[2]) = 1

\* round(min(|c|, 1) * (2^19 - 1)) of the scaled component n * sqrt(2) / QUnit,
\* rounded to the nearest integer
RoundedMagnitude(n) ==
    IF 2 * n * n >= QUnit * QUnit
    THEN MagMax
    ELSE (n * 741453 + (n * 7860) \div 10000 + 500) \div QUnit

\* a 20-bit chunk holds the rounded magnitude of c and the sign bit 1 exactly
\* when c is not negative
ChunkHolds(chunk, c) ==
    /\ MagnitudeBits(chunk) = RoundedMagnitude(Abs(c))
    /\ MagnitudeBits(chunk) <= MagMax
    /\ (SignBit(chunk) = 1 <=> c >= 0)
    /\ chunk < 1048576

\* C19: packed quaternion layout.  In every word the encoder returns, bits
\* 20i..20i+18 hold round(min(|c_i|, 1) * (2^19 - 1)), rounded to nearest and
\* never above 2^19 - 1, bit 20i+19 is 1 exactly when c_i is not negative,
\* bits 60-61 hold 3 - m and bits 62-63 are zero; c_i is the retained
\* component i as the encoder encodes it.
C19_PackedLayout ==
    phase \in {"compressed", "decompressed"} =>
        /\ LET m == MaxIndex(quat)
           IN  /\ \A i \in 0..2 :
                      ChunkHolds(compressed[i + 1],
                                 SignCorrected(Remaining(SignNormalized(quat), m)[i + 1],
                                               i, m))
               /\ compressed[4] = 3 - m
        /\ LET m == MaxIndex(Rearranged(quat))
           IN  /\ \A i \in 0..2 :
                      ChunkHolds(ExportCompressQuaternion(quat)[i + 1],
                                 SignCorrected(Remaining(SignNormalized(Rearranged(quat)), m)[i + 1],
                                               i, 3 - m))
               /\ ExportCompressQuaternion(quat)[4] = 3 - m

\* a quaternion with the retained component 0.2 has been compressed: the
\* magnitude 148290.757 is stored as 148290
C19_FifthCompressed ==
    /\ phase = "compressed"
    /\ quat = << 800, 200, 400, 400 >>
    /\ MagnitudeBits(compressed[1]) = 148290
    /\ RoundedMagnitude(200) = 148291

\* d has the sign of c, or is zero
SameSign(d, c) == (c > 0 => d >= 0) /\ (c < 0 => d <= 0)

\* C20: quaternion decode inverts the encode at the level of slots and signs.
\* For every word TMAWriter._compress_quaternion produces from a unit
\* quaternion, each component decoded by TMAReader._decompress_quaternion
\* and by read_rotation has the sign it has in the sign-normalized input,
\* and the recomputed component is back in the slot that was dropped.
C20_DecodeInvertsSigns ==
    phase = "decompressed" =>
        /\ \A k \in 1..4 : SameSign(decompressed[k], SignNormalized(quat)[k])
        /\ decompressed[MaxIndex(quat) + 1] > 0
        /\ \A k \in 1..4 : SameSign(read_rotation(compressed)[k], SignNormalized(quat)[k])
        /\ read_rotation(compressed)[MaxIndex(quat) + 1] > 0

\* the quaternion (0.8, 0.6, 0, 0) has been compressed and decompressed: the
\* recomputed 0.8 is in slot z and the retained 0.6 comes back negative in
\* slot w
C20_SwappedSlotsDecoded ==
    /\ phase = "decompressed"
    /\ quat = << 800, 600, 0, 0 >>
    /\ decompressed = << -600, 0, 0, 800 >>

(***************************************************************************)
(* Sign continuity of decoded rotations                                    *)
(***************************************************************************)
Dot(q, r) == q[1] * r[1] + q[2] * r[2] + q[3] * r[3] + q[4] * r[4]

\* each quaternion after the first has a non-negative dot product with the
\* quaternion of the previous frame
SignContinuous(rotations) ==
    \A k \in 2..Len(rotations) : Dot(rotations[k - 1], rotations[k]) >= 0

\* C21: sign continuity.  In every Keyed rotation track a decoder returns
\* (TMAReader or the import script), each quaternion after the first has a
\* non-negative dot product with the quaternion decoded for the previous
\* frame.
C21_SignContinuity ==
    (phase = "read" /\ reader \in {"TMAReader", "import_tma_file"} /\ result.err = "") =>
        \A k \in 1..Len(result.val.animations) :
            result.val.animations[k].rotation_mode = 3 =>
                SignContinuous(result.val.animations[k].rotations)


\* TMAReader has decoded a Keyed track of TMAWriter whose two rotations
\* (0.6, 0.8, 0, 0) and (0, 0.6, 0, 0.8) come back with a negative dot product
C21_OppositeQuatsDecoded ==
    /\ phase = "read"
    /\ reader = "TMAReader"
    /\ writer = "TMAWriter"
    /\ result.err = ""
    /\ \E k \in 1..Len(result.val.animations) :
           /\ result.val.animations[k].rotation_mode = 3
           /\ Len(result.val.animations[k].rotations) = 2
           /\ Dot(result.val.animations[k].rotations[1],
                  result.val.animations[k].rotations[2]) < 0

(***************************************************************************)
(* 4x3 matrices of the mesh file                                           *)
(***************************************************************************)
\* the 4th row of m is [0, 0, 0, 1]
IsAffine(m) == m[4] = << 0, 0, 0, UnpackF(F32_ONE) >>

\* the float at 0-based index k of the floats b
FloatAt(b, k) == UnpackF(SubSeq(b, 4 * k + 1, 4 * k + 4))

\* the 12 floats written for m are the top 3 rows of m in row-major order, and
\* read back they give m
RoundTrip4x3(m) ==
    /\ \A k \in 0..11 : FloatAt(TMMWriter_write_matrix_4x3(m), k) = First12(m)[k + 1]
    /\ Reshape43(TMMWriter_write_matrix_4x3(m)) = m

\* C22: 4x3 matrix round trip.  For every affine 4x4 matrix M the 12 floats
\* TMMWriter writes for M (main matrix, both attachment matrices) are the top
\* 3 rows of M in row-major order, and TMMReader's 4x3 read returns M from them.
C22_Matrix4x3RoundTrip ==
    (/\ phase = "read"
     /\ writer = "TMMWriter"
     /\ reader = "TMMReader"
     /\ tmm_data \in WellFormedTMM
     /\ result.err = "") =>
        /\ IsAffine(tmm_data.main_matrix) =>
               /\ RoundTrip4x3(tmm_data.main_matrix)
               /\ result.val.main_matrix = tmm_data.main_matrix
        /\ \A i \in 1..Len(tmm_data.attachments) :
               /\ IsAffine(tmm_data.attachments[i].transform_matrix1) =>
                      /\ RoundTrip4x3(tmm_data.attachments[i].transform_matrix1)
                      /\ result.val.attachments[i].transform_matrix1
                             = tmm_data.attachments[i].transform_matrix1
               /\ IsAffine(tmm_data.attachments[i].transform_matrix2) =>
                      /\ RoundTrip4x3(tmm_data.attachments[i].transform_matrix2)
                      /\ result.val.attachments[i].transform_matrix2
                             = tmm_data.attachments[i].transform_matrix2

\* a document with an affine main matrix and an attachment has been through
\* TMMWriter and TMMReader: the first row read holds M[0][0..2] and M[1][0]
C22_AffineMatrixDecoded ==
    /\ phase = "read"
    /\ writer = "TMMWriter"
    /\ reader = "TMMReader"
    /\ tmm_data \in WellFormedTMM
    /\ result.err = ""
    /\ Len(tmm_data.attachments) = 1
    /\ IsAffine(tmm_data.main_matrix)
    /\ tmm_data.main_matrix[1] = << 481, 482, 483, 484 >>
    /\ result.val.main_matrix[1] = << 481, 482, 483, 485 >>
    /\ IsAffine(result.val.main_matrix)

(***************************************************************************)
(* 4x4 bone matrices                                                       *)
(***************************************************************************)
\* element [r][c] (0-based) of m is the float at index 4c + r of b
StoredTransposed(b, m) ==
    \A r \in 0..3, c \in 0..3 : m[r + 1][c + 1] = FloatAt(b, 4 * c + r)

\* the three matrices of a bone
BoneMatrices(bone) ==
    << bone.parent_space_matrix, bone.world_space_matrix, bone.inverse_bind_matrix >>

\* C23: one transpose convention for 4x4 matrices.  The animation codec and
\* the mesh codec both transpose a bone matrix once on load and once on store:
\* in-memory element [r][c] is the on-disk float 4c + r in TMAReader/TMAWriter
\* and in TMMReader/TMMWriter, and the same on-disk matrix decodes to the same
\* in-memory matrix in both.
C23_OneTransposeConvention ==
    (phase = "read" /\ result.err = "") =>
        /\ (writer = "TMAWriter" /\ reader = "TMAReader" /\ tma_data \in WellFormedTMA) =>
               \A i \in 1..Len(tma_data.bones), k \in 1..3 :
                   /\ StoredTransposed(TMAWriter_write_matrix(BoneMatrices(tma_data.bones[i])[k]),
                                       BoneMatrices(result.val.bones[i])[k])
                   /\ BoneMatrices(result.val.bones[i])[k] = BoneMatrices(tma_data.bones[i])[k]
        /\ (writer = "TMMWriter" /\ reader = "TMMReader" /\ tmm_data \in WellFormedTMM) =>
               \A i \in 1..Len(tmm_data.bones), k \in 1..3 :
                   /\ StoredTransposed(TMMWriter_write_matrix(BoneMatrices(tmm_data.bones[i])[k]),
                                       BoneMatrices(result.val.bones[i])[k])
                   /\ BoneMatrices(result.val.bones[i])[k] = BoneMatrices(tmm_data.bones[i])[k]
                   /\ BoneMatrices(result.val.bones[i])[k] =
                          Transposed(Reshape44(
                              TMMWriter_write_matrix(BoneMatrices(tmm_data.bones[i])[k])))

\* a mesh document with a bone has been through TMMWriter and TMMReader: the
\* second float on disk is element [0][1] of the matrix read, not [1][0]
C23_MeshBoneDecoded ==
    /\ phase = "read"
    /\ writer = "TMMWriter"
    /\ reader = "TMMReader"
    /\ tmm_data \in WellFormedTMM
    /\ result.err = ""
    /\ Len(tmm_data.bones) >= 1
    /\ result.val.bones[1].world_space_matrix = tmm_data.bones[1].world_space_matrix
    /\ FloatAt(TMMWriter_write_matrix(tmm_data.bones[1].world_space_matrix), 1)
           = result.val.bones[1].world_space_matrix[1][2]
    /\ result.val.bones[1].world_space_matrix[1][2]
           # result.val.bones[1].world_space_matrix[2][1]

(***************************************************************************)
(* Triangles of the mesh data file                                         *)
(***************************************************************************)
\* the export script wrote the mesh and the import script read it back
MeshImported ==
    /\ phase = "read"
    /\ writer = "export_tmm_file"
    /\ reader = "import_tmm_file"
    /\ result.err = ""

\* the number of vertices of the groups before group g
VertsBefore(groups, g) == SumSeq([j \in 1..(g - 1) |-> Len(groups[j].verts)])

\* the triangles of all groups in file order, each with its group
GroupTriangles(groups) ==
    Concat([g \in 1..Len(groups) |->
              [k \in 1..Len(groups[g].tris) |-> [group |-> g, tri |-> groups[g].tris[k]]]])

\* the k-th stored triangle of the data file: three 16-bit indices
StoredTriangle(k) ==
    LET at == 16 * TotalVertices(mesh.mesh_groups) + 6 * (k - 1)
    IN  << UnpackH(SubSeq(data_file, at + 1, at + 2)),
           UnpackH(SubSeq(data_file, at + 3, at + 4)),
           UnpackH(SubSeq(data_file, at + 5, at + 6)) >>

\* C24: triangle winding swap.  The encoder stores the in-memory triangle
\* (i0, i1, i2) as (i0, i2, i1) and the decoder maps the stored (a, b, c) to
\* (a, c, b), so a decoded triangle has the index order of the original
\* (shifted by the vertices of the groups before its own).
C24_WindingSwap ==
    MeshImported =>
        /\ Len(result.val.triangle_list) = Len(GroupTriangles(mesh.mesh_groups))
        /\ \A k \in 1..Len(GroupTriangles(mesh.mesh_groups)) :
               LET t == GroupTriangles(mesh.mesh_groups)[k]
                   off == VertsBefore(mesh.mesh_groups, t.group)
               IN  /\ StoredTriangle(k) = << t.tri[1], t.tri[3], t.tri[2] >>
                   /\ result.val.triangle_list[k] =
                          << StoredTriangle(k)[1] + off, StoredTriangle(k)[3] + off,
                             StoredTriangle(k)[2] + off >>
                   /\ result.val.triangle_list[k] =
                          << t.tri[1] + off, t.tri[2] + off, t.tri[3] + off >>

\* a mesh whose first triangle is (0, 1, 2) has been exported, stored as
\* (0, 2, 1) and imported
C24_TriangleImported ==
    /\ MeshImported
    /\ Len(result.val.triangle_list) >= 2
    /\ mesh.mesh_groups[1].tris[1] = << 0, 1, 2 >>
    /\ StoredTriangle(1) = << 0, 2, 1 >>
    /\ result.val.triangle_list[1] = << 0, 1, 2 >>


(***************************************************************************)
(* The 15-bit inversion of a packed direction field                        *)
(***************************************************************************)
\* a field has been read on its own
FieldRead ==
    phase = "read" /\ reader = "read_tmm_data" /\ written = "game" /\ result.err = ""

\* the 16-bit value of the two bytes of the field as stored
RawField == data_file[1] + 256 * data_file[2]

\* the two bytes of a 16-bit value, low byte first
FieldBytes(val) == << val % 256, val \div 256 >>

\* C25: reversibility of the 15-bit inversion.  The undo keeps bit 15 and
\* inverts the lower 15 bits exactly when bit 14 of the raw field is set, and
\* applying the same conditional inversion to the undone field gives the raw
\* field back, so the raw field is the only one that undoes to this value.
C25_InversionReversible ==
    FieldRead =>
        /\ result.val.n_raw \div 32768 = RawField \div 32768
        /\ result.val.n_raw % 32768 =
               IF (RawField \div 16384) % 2 = 1 THEN 32767 - (RawField % 32768)
               ELSE RawField % 32768
        /\ NormalRaw(FieldBytes(result.val.n_raw)) = RawField
        /\ \A r \in 0..65535 :
               NormalRaw(FieldBytes(r)) = result.val.n_raw => r = RawField

\* the field 0x4000 has been undone to 0x3FFF, the value the field 0x3FFF
\* also undoes to
C25_InvertedFieldRead ==
    /\ FieldRead
    /\ RawField = 16384
    /\ result.val.n_raw = 16383
    /\ NormalRaw(FieldBytes(16383)) = 16383


(***************************************************************************)
(* The sign of a packed direction                                          *)
(***************************************************************************)
\* the octahedral vector of the two 7-bit fields of a 16-bit value
OctVector(value) == oct_decode(value % 128, (value \div 128) % 128)

CountsOfFile ==
    ReadFields(file,
               Return(ReadStruct(file, ReadStruct(file, ReadStruct(file,
                   ImportCrapBlock(file,
                       ReadStruct(file, SkipRead(file, ImportTMMHeader(file, Opened), 4), 4)),
                   24), 24), 4), << >>),
               [k \in 1..8 |-> 4])

\* a mesh file written whole by one of the encoders (4-byte native fields
\* in the export script), with a header the decoders accept, has been read
\* by one of the decoders
MeshFileRead ==
    /\ phase = "read"
    /\ written = "ok"
    /\ reader \in {"TMMReader", "import_tmm_file"}
    /\ \/ writer \in {"TMMWriter", "TMMManager"}
       \/ writer = "export_tmm_file" /\ file = ExportTMMFile(mesh, 4)
    /\ CountsOfFile.err = ""

\* the offset where the block table begins
TableStart == CountsOfFile.pos

\* the offset at which the encoder of the file put the two reserved bytes
BoolsWrittenAt ==
    IF writer = "export_tmm_file"
    THEN TableStart
         + Len(PackNativeLs(ExportBlockTable(TotalVertices(mesh.mesh_groups),
                                             TotalTriangles(mesh.mesh_groups)), 4))
    ELSE TableStart + Len(TMMWriter_write_block_info)

\* the offset at which the decoder of the file reads the two reserved bytes
BoolsReadAt ==
    IF reader = "import_tmm_file"
    THEN ImportBlockTable(file, Ok(TableStart, << >>)).pos
    ELSE TMMReader_read_block_info(file, Ok(TableStart, << >>)).pos

\* C27: block table width.  Every encoder writes, and every decoder reads,
\* a block table of 8 (start, length) pairs, 64 bytes, so the two reserved
\* bytes are read at the offset at which they were written.
C27_BlockTableWidth ==
    MeshFileRead =>
        /\ BoolsWrittenAt = TableStart + 64
        /\ BoolsReadAt = TableStart + 64
        /\ file[BoolsReadAt + 1] = 0
        /\ file[BoolsReadAt + 2] = 1

\* the import script has read a file of TMMWriter and stopped at the two
\* reserved bytes, which it took from the last 8 bytes of the block table
C27_ReservedBytesMisread ==
    /\ MeshFileRead
    /\ writer = "TMMWriter"
    /\ reader = "import_tmm_file"
    /\ BoolsWrittenAt = TableStart + 64
    /\ BoolsReadAt = TableStart + 56
    /\ result.err = "AssertionError"
    /\ result.pos = TableStart + 58


(***************************************************************************)
(* Triangle-vertex counts of the mesh groups                               *)
(***************************************************************************)
\* TMMReader has read a file that TMMWriter wrote whole
WrittenMeshRead ==
    /\ phase = "read"
    /\ writer = "TMMWriter"
    /\ written = "ok"
    /\ reader = "TMMReader"

\* C28: triangle-vertex divisibility.  Decoding a mesh file in which a mesh
\* group's triangle-vertex count is not a multiple of 3 fails and returns no
\* document, and every group of a returned document has
\* num_tris * 3 = num_tri_verts.
C28_TriVertsDivisible ==
    WrittenMeshRead =>
        /\ (\E k \in 1..Len(tmm_data.mesh_groups) :
                tmm_data.mesh_groups[k].num_tri_verts % 3 # 0)
               => (result.err # "" /\ result.val = << >>)
        /\ result.err = "" =>
               \A k \in 1..Len(result.val.mesh_groups) :
                   result.val.mesh_groups[k].num_tris * 3
                       = result.val.mesh_groups[k].num_tri_verts

\* TMMReader has returned a document with a group of 4 triangle vertices
\* and 1 triangle
C28_UnevenGroupReturned ==
    /\ WrittenMeshRead
    /\ result.err = ""
    /\ \E k \in 1..Len(result.val.mesh_groups) :
           /\ result.val.mesh_groups[k].num_tri_verts = 4
           /\ result.val.mesh_groups[k].num_tris = 1


(***************************************************************************)
(* The end of the animation file                                           *)
(***************************************************************************)
\* a well-formed document written whole by TMAWriter has been read by one
\* of the decoders
WrittenAnimationRead ==
    /\ phase = "read"
    /\ writer = "TMAWriter"
    /\ written = "ok"
    /\ tma_data \in WellFormedTMA
    /\ reader \in {"TMAReader", "import_tma_file"}

\* C29: end of the animation stream.  A file of TMAWriter continues after
\* the last track with the attachment stubs and a zero u32, so each decoder,
\* the import script included, accepts it and stops at the end of the file.
C29_StreamTail ==
    WrittenAnimationRead =>
        /\ result.err = ""
        /\ result.pos = Len(file)
        /\ Len(file) >= TMAReader_parse_file(file).pos + 4

\* the import script has run out of bytes at the place where TMAReader,
\* done with the tracks and the attachments, stops: the end of the file
C29_TailMissing ==
    /\ WrittenAnimationRead
    /\ reader = "import_tma_file"
    /\ Len(tma_data.animations) > 0
    /\ TMAReader_parse_file(file).err = ""
    /\ TMAReader_parse_file(file).pos = Len(file)
    /\ result.err = "struct.error"
    /\ result.pos = Len(file)


(***************************************************************************)
(* Triangle indices across mesh groups                                     *)
(***************************************************************************)
\* the position of a vertex of the scene as the import script reads it back:
\* the three half floats x, y, z
StoredPosition(vert) == << PackE(vert.co[1]), PackE(vert.co[2]), PackE(vert.co[3]) >>

\* C30: triangle index rebasing.  The stored indices of a triangle are local
\* to its mesh group (0 .. num_verts - 1); the decoded indices are the stored
\* ones plus the vertex counts of all groups before, lie within the vertices
\* of the triangle's own group, and refer to the vertices the encoder meant.
C30_IndexRebasing ==
    MeshImported =>
        \A k \in 1..Len(GroupTriangles(mesh.mesh_groups)) :
            LET t == GroupTriangles(mesh.mesh_groups)[k]
                verts == mesh.mesh_groups[t.group].verts
                off == VertsBefore(mesh.mesh_groups, t.group)
            IN  /\ k <= Len(result.val.triangle_list)
                /\ \A i \in 1..3 :
                       /\ StoredTriangle(k)[i] \in 0..(Len(verts) - 1)
                       /\ result.val.triangle_list[k][i] \in off..(off + Len(verts) - 1)
                       /\ result.val.vertex_list[result.val.triangle_list[k][i] + 1].co
                              = StoredPosition(verts[t.tri[i] + 1])

\* a triangle of the second mesh group, stored with the local index 0, has
\* been imported with indices after the vertices of the first group
C30_SecondGroupImported ==
    /\ MeshImported
    /\ Len(mesh.mesh_groups) >= 2
    /\ Len(mesh.mesh_groups[1].verts) > 0
    /\ \E k \in 1..Len(GroupTriangles(mesh.mesh_groups)) :
           /\ GroupTriangles(mesh.mesh_groups)[k].group = 2
           /\ StoredTriangle(k)[1] = 0
           /\ result.val.triangle_list[k][1] = Len(mesh.mesh_groups[1].verts)

====
